---------------------------- MODULE Spec2Model ----------------------------
(***************************************************************************)
(* Model of the student-retention prediction service (src/simple_api.py):  *)
(* SimplePredictor (feature engineering, risk scoring, factors and         *)
(* recommendations) and the three Flask handlers health_check,             *)
(* predict_student and predict_batch, and of the training entry point      *)
(* (src/scripts/train_model.py) that writes the classifier artifact.       *)
(*                                                                         *)
(* Numbers are fixed-point integers on decimal grids:                      *)
(*   current_gpa            in 1/1000        (2.5   -> 2500)               *)
(*   attendance_rate        in 1/10000       (0.8   -> 8000)               *)
(*   total_credits, credits_attempted, age   as they are                   *)
(*   gpa_trend              in 1/100         (-0.1  -> -10)                *)
(*   course_difficulty_avg  in 1/10          (3.0   -> 30)                 *)
(*   risk_score, confidence in 1/100000      (0.7   -> 70000)              *)
(* A product of two grid values is kept exactly (its unit is the product   *)
(* of the units); the one quotient of the program is kept as a fraction.   *)
(***************************************************************************)
EXTENDS Integers, Sequences, FiniteSets, TLC

-----------------------------------------------------------------------------
(* JSON values.  A scalar is [t, v]: t is its JSON type ("absent" marks a  *)
(* key that the object does not have), v its number on the field's grid,   *)
(* 0/1 for a boolean, an identifier number for a student_id string and 0   *)
(* for null and for a string that is not a number.                         *)

Absent == [t |-> "absent", v |-> 0]
Null == [t |-> "null", v |-> 0]
Num(n) == [t |-> "num", v |-> n]
Bool(b) == [t |-> "bool", v |-> IF b THEN 1 ELSE 0]
Str(n) == [t |-> "str", v |-> n]

Abs(x) == IF x < 0 THEN -x ELSE x
Min2(a, b) == IF a <= b THEN a ELSE b

\* The 8 recognised input fields of a student record.
FieldNames ==
    << "current_gpa", "attendance_rate", "total_credits", "gpa_trend",
       "course_difficulty_avg", "credits_attempted", "age",
       "is_first_generation" >>

Fields == { FieldNames[i] : i \in 1..Len(FieldNames) }

\* The keys a JSON object of the model may carry.
Keys == Fields \cup {"student_id"}

\* The JSON object {} (no key present).
EmptyObject == [k \in Keys |-> Absent]

\* SimplePredictor.feature_names: the 15 features in the classifier's order.
feature_names ==
    << "current_gpa", "attendance_rate", "total_credits", "gpa_trend",
       "attendance_gpa_interaction", "gpa_difficulty_interaction",
       "course_difficulty_avg", "credits_attempted", "credit_load_status",
       "gpa_status", "attendance_status", "academic_progress_rate",
       "risk_factor_count", "age", "is_first_generation" >>

-----------------------------------------------------------------------------
(* Feature values.  A cell of the features frame is [k, n, d]:             *)
(*   k = "num"  the number n/d (d = 1 except for the quotient),            *)
(*   k = "bool" a JSON boolean that passed through (n = 0 or 1),           *)
(*   k = "inf"  +infinity (n = 1) or -infinity (n = -1),                   *)
(*   k = "nan"  a missing value (None or NaN),                             *)
(*   k = "str"  a string that passed through unconverted.                  *)

Cell(n) == [k |-> "num", n |-> n, d |-> 1]
NaNCell == [k |-> "nan", n |-> 0, d |-> 1]
StrCell == [k |-> "str", n |-> 0, d |-> 1]
BoolCell(n) == [k |-> "bool", n |-> n, d |-> 1]

\* A scalar of the input frame as a cell of the features frame.
AsCell(x) ==
    CASE x.t = "num" -> Cell(x.v)
      [] x.t = "bool" -> BoolCell(x.v)
      [] x.t = "str" -> StrCell
      [] OTHER -> NaNCell

\* pandas' float division current_gpa / (course_difficulty + 0.1): a zero
\* denominator gives +-inf, and NaN for 0/0.
Divide(n, d) ==
    IF d # 0 THEN [k |-> "num", n |-> n, d |-> d]
    ELSE IF n > 0 THEN [k |-> "inf", n |-> 1, d |-> 1]
    ELSE IF n < 0 THEN [k |-> "inf", n |-> -1, d |-> 1]
    ELSE NaNCell

\* df.columns of the one-row frame pd.DataFrame([data]): the keys of data.
Columns(df) == { c \in DOMAIN df : df[c].t # "absent" }

\* Series.fillna(default_value) on the one row.
fillna(x, default_value) == IF x.t = "null" THEN default_value ELSE x

\* A variant of safe_get that hands a null through unfilled.
safe_get_nofill(df, column_name, default_value) ==
    IF column_name \in Columns(df) THEN df[column_name] ELSE default_value

\* engineer_features.safe_get
safe_get(df, column_name, default_value) ==
    IF column_name \in Columns(df)
    THEN fillna(df[column_name], default_value)
    ELSE default_value

\* The value of column `name` in the frame `cols` (a sequence of
\* <<name, cell>> in insertion order); a column that was never set is
\* created with 0.0 (lines 151-153).
Column(cols, name) ==
    IF \E i \in 1..Len(cols) : cols[i][1] = name
    THEN cols[CHOOSE i \in 1..Len(cols) : cols[i][1] = name][2]
    ELSE Cell(0)

\* DataFrame.fillna(0.0) on one cell.
fillna0(c) == IF c.k = "nan" THEN Cell(0) ELSE c

\* features[expected_features].fillna(0.0): the columns selected in the
\* order of expected_features.
SelectColumns(cols, expected_features) ==
    [i \in 1..Len(expected_features) |->
        [name |-> expected_features[i],
         val |-> fillna0(Column(cols, expected_features[i]))]]

\* The frame as it was built, without the selection by feature_names.
UnselectedColumns(cols, expected_features) ==
    [i \in 1..Len(cols) |-> [name |-> cols[i][1], val |-> fillna0(cols[i][2])]]

NoFeatures == << >>

\* A variant of the derived features with the status thresholds made
\* strict.
FeatureColumnsStrict(df) ==
    LET current_gpa == safe_get(df, "current_gpa", Num(2500))
        attendance_rate == safe_get(df, "attendance_rate", Num(8000))
        total_credits == safe_get(df, "total_credits", Num(15))
        gpa_trend == safe_get(df, "gpa_trend", Num(0))
        course_difficulty == safe_get(df, "course_difficulty_avg", Num(30))
        credits_attempted == safe_get(df, "credits_attempted", Num(45))
        age == safe_get(df, "age", Num(20))
        is_first_generation == safe_get(df, "is_first_generation", Bool(FALSE))
        risk_count ==
            (IF current_gpa.v < 2500 THEN 1 ELSE 0)
            + (IF attendance_rate.v < 7000 THEN 1 ELSE 0)
            + (IF total_credits.v > 18 THEN 1 ELSE 0)
    IN  << <<"current_gpa", AsCell(current_gpa)>>,
           <<"attendance_rate", AsCell(attendance_rate)>>,
           <<"total_credits", AsCell(total_credits)>>,
           <<"gpa_trend", AsCell(gpa_trend)>>,
           <<"attendance_gpa_interaction",
             Cell(attendance_rate.v * current_gpa.v)>>,
           <<"course_difficulty_avg", AsCell(course_difficulty)>>,
           <<"gpa_difficulty_interaction",
             Divide(current_gpa.v, course_difficulty.v + 1)>>,
           <<"credits_attempted", AsCell(credits_attempted)>>,
           <<"credit_load_status",
             Cell(IF total_credits.v > 15 THEN 1 ELSE 0)>>,
           <<"gpa_status", Cell(IF current_gpa.v > 3000 THEN 1 ELSE 0)>>,
           <<"attendance_status",
             Cell(IF attendance_rate.v > 8000 THEN 1 ELSE 0)>>,
           <<"academic_progress_rate",
             Cell(current_gpa.v * attendance_rate.v)>>,
           <<"risk_factor_count", Cell(risk_count)>>,
           <<"age", AsCell(age)>>,
           <<"is_first_generation", Cell(is_first_generation.v)>> >>

\* The columns of the features frame for the row df, in insertion order.
FeatureColumns(df) ==
    LET current_gpa == safe_get(df, "current_gpa", Num(2500))
        attendance_rate == safe_get(df, "attendance_rate", Num(8000))
        total_credits == safe_get(df, "total_credits", Num(15))
        gpa_trend == safe_get(df, "gpa_trend", Num(0))
        course_difficulty == safe_get(df, "course_difficulty_avg", Num(30))
        credits_attempted == safe_get(df, "credits_attempted", Num(45))
        age == safe_get(df, "age", Num(20))
        is_first_generation == safe_get(df, "is_first_generation", Bool(FALSE))
        risk_count ==
            (IF current_gpa.v < 2500 THEN 1 ELSE 0)
            + (IF attendance_rate.v < 7000 THEN 1 ELSE 0)
            + (IF total_credits.v > 18 THEN 1 ELSE 0)
    IN  << <<"current_gpa", AsCell(current_gpa)>>,
           <<"attendance_rate", AsCell(attendance_rate)>>,
           <<"total_credits", AsCell(total_credits)>>,
           <<"gpa_trend", AsCell(gpa_trend)>>,
           <<"attendance_gpa_interaction",
             Cell(attendance_rate.v * current_gpa.v)>>,
           <<"course_difficulty_avg", AsCell(course_difficulty)>>,
           <<"gpa_difficulty_interaction",
             Divide(current_gpa.v, course_difficulty.v + 1)>>,
           <<"credits_attempted", AsCell(credits_attempted)>>,
           <<"credit_load_status",
             Cell(IF total_credits.v >= 15 THEN 1 ELSE 0)>>,
           <<"gpa_status", Cell(IF current_gpa.v >= 3000 THEN 1 ELSE 0)>>,
           <<"attendance_status",
             Cell(IF attendance_rate.v >= 8000 THEN 1 ELSE 0)>>,
           <<"academic_progress_rate",
             Cell(current_gpa.v * attendance_rate.v)>>,
           <<"risk_factor_count", Cell(risk_count)>>,
           <<"age", AsCell(age)>>,
           <<"is_first_generation", Cell(is_first_generation.v)>> >>

\* The exception the arithmetic of lines 120-147 raises on the row df:
\* a string operand of a product, sum or comparison is a TypeError, and
\* astype(int) of a string that is not a number a ValueError.
FeatureError(df) ==
    IF \E c \in {"current_gpa", "attendance_rate", "total_credits",
                 "course_difficulty_avg"} : df[c].t = "str"
    THEN "TypeError"
    ELSE IF df["is_first_generation"].t = "str" THEN "ValueError"
    ELSE "none"

\* SimplePredictor.engineer_features.  data is [k, o, n]: a JSON object
\* (k = "obj", o its keys), a JSON array of n rows (k = "list", o its first
\* row) or another JSON value, which has no .copy().  The result is
\* [exc, rows, f]: the exception raised ("none": it returned), the number
\* of rows of the returned frame and its first row f.
engineer_features(data) ==
    IF data.k \notin {"obj", "list"}
    THEN [exc |-> "AttributeError", rows |-> 0, f |-> NoFeatures]
    ELSE IF data.k = "list" /\ data.n = 0
    THEN [exc |-> "none", rows |-> 0, f |-> NoFeatures]
    ELSE IF FeatureError(data.o) # "none"
    THEN [exc |-> FeatureError(data.o), rows |-> 0, f |-> NoFeatures]
    ELSE [exc |-> "none",
          rows |-> IF data.k = "obj" THEN 1 ELSE data.n,
          f |-> SelectColumns(FeatureColumns(data.o), feature_names)]

-----------------------------------------------------------------------------
(* The classifier.  predictor.model is None or an object with              *)
(* predict_proba; the random forest is opaque, so a loaded classifier is   *)
(* one of a family of deterministic functions of the feature vector: it    *)
(* reads the vector by position and answers the entry of `table` that the  *)
(* vector's digest, shifted by `seed`, selects.  `names` are the column    *)
(* names it was fitted with (none when it was fitted on an array), and     *)
(* `strict` tells whether the scikit-learn build that runs it rejects      *)
(* input whose column names differ from them (1.2 and later) or only       *)
(* warns.                                                                  *)

None ==
    [loaded |-> FALSE, seed |-> 0, table |-> << >>, names |-> << >>,
     strict |-> FALSE]

\* A forest fitted on an array, as _create_model fits it (line 78).
Classifier(seed, table) ==
    [loaded |-> TRUE, seed |-> seed, table |-> table, names |-> << >>,
     strict |-> FALSE]

\* A forest fitted on a frame with the columns `names`.
Fitted(seed, table, names, strict) ==
    [loaded |-> TRUE, seed |-> seed, table |-> table, names |-> names,
     strict |-> strict]

\* The column names of the row f.
Names(f) == [i \in 1..Len(f) |-> f[i].name]

RECURSIVE Digest(_, _)
Digest(f, i) ==
    IF i = 0 THEN 0
    ELSE (Digest(f, i - 1) + i * ((f[i].val.n + f[i].val.d) % 101)) % 1009

\* sklearn's input validation: no sample, or a cell that is not a finite
\* number, is a ValueError; a boolean is converted to 0.0 or 1.0.
Finite(f) == \A i \in 1..Len(f) : f[i].val.k \in {"num", "bool"}

\* sklearn's check of the input frame's column names against the names
\* the forest was fitted with.
NamesAccepted(model, f) ==
    \/ model.names = << >>
    \/ ~model.strict
    \/ model.names = Names(f)

\* self.model.predict_proba(features)[:, 1] and risk_probabilities[0]:
\* [exc, p].
predict_proba(model, features) ==
    IF features.rows = 0 \/ ~Finite(features.f)
       \/ ~NamesAccepted(model, features.f)
    THEN [exc |-> "ValueError", p |-> 0]
    ELSE [exc |-> "none",
          p |-> model.table[((model.seed + Digest(features.f, Len(features.f)))
                             % Len(model.table)) + 1]]

\* Variants of the tier thresholds: the boundary test made strict, and the
\* medium threshold moved.
RiskLevelStrict(risk_score) ==
    IF risk_score > 70000 THEN "HIGH"
    ELSE IF risk_score > 40000 THEN "MEDIUM"
    ELSE "LOW"

\* predict, lines 174-180.
RiskLevel(risk_score) ==
    IF risk_score >= 70000 THEN "HIGH"
    ELSE IF risk_score >= 40000 THEN "MEDIUM"
    ELSE "LOW"

\* A variant of the confidence without the factor 2.
ConfidenceUnscaled(risk_score) == Min2(Abs(risk_score - 50000), 100000)

\* predict, line 183: min(abs(risk_score - 0.5) * 2, 1.0).
Confidence(risk_score) == Min2(Abs(risk_score - 50000) * 2, 100000)

\* Rounding of n/10 to the nearest integer, ties to even (the input grids
\* below hold no tie: a decimal tie is decided by its binary expansion).
RoundTenth(n) ==
    LET q == n \div 10
        r == n % 10
    IN  IF r < 5 THEN q
        ELSE IF r > 5 THEN q + 1
        ELSE IF q % 2 = 0 THEN q ELSE q + 1

\* f"{x:.2f}" of a GPA on the 1/1000 grid: the number of hundredths shown.
Format2f(x) == RoundTenth(x)

\* f"{x:.1%}" of a rate on the 1/10000 grid: the tenths of a percent shown.
FormatPercent1(x) == RoundTenth(x)

\* The value of column `name` in the row `features`.
Feature(features, name) ==
    features[CHOOSE i \in 1..Len(features) : features[i].name = name].val

\* A factor string: its fixed text, the number it shows and, where the
\* f-string gives no format, how str() writes that number ("float": 19.0,
\* "int": 19).
Factor(text, arg) == [text |-> text, arg |-> arg, repr |-> ""]

\* The dtype of the row features.iloc[0]: the columns' common dtype, which
\* is float64 for integer and float columns and object as soon as one
\* column holds booleans or strings.  (A column whose null fillna replaced
\* is a float column: pandas before 3.0 infers the dtype again after
\* fillna.)
RowDtype(features) ==
    IF \E i \in 1..Len(features) : features[i].val.k \in {"bool", "str"}
    THEN "object"
    ELSE "float64"

\* str() of the total_credits element of the row: a float64 row holds
\* 19.0, an object row the integer of the column.
CreditsRepr(features) ==
    IF RowDtype(features) = "float64" THEN "float" ELSE "int"

Fallback == Factor("Multiple minor risk indicators", 0)

Take(s, n) == SubSeq(s, 1, Min2(n, Len(s)))

\* The list _get_factors builds before its final slice.
FactorList(features) ==
    LET current_gpa == Feature(features, "current_gpa")
        attendance_rate == Feature(features, "attendance_rate")
        total_credits == Feature(features, "total_credits")
        gpa_trend == Feature(features, "gpa_trend")
        f1 == IF current_gpa.n < 2500
              THEN << Factor("Low GPA", Format2f(current_gpa.n)) >>
              ELSE << >>
        f2 == IF attendance_rate.n < 7000
              THEN << Factor("Poor attendance",
                             FormatPercent1(attendance_rate.n)) >>
              ELSE << >>
        f3 == IF total_credits.n > 18
              THEN << [Factor("Heavy course load", total_credits.n)
                          EXCEPT !.repr = CreditsRepr(features)] >>
              ELSE << >>
        f4 == IF gpa_trend.n < -10
              THEN << Factor("Declining academic performance", 0) >>
              ELSE << >>
        factors == f1 \o f2 \o f3 \o f4
    IN  IF factors = << >> THEN << Fallback >> ELSE factors

\* Variants of _get_factors: the slice taken from the end of the list, and
\* the fallback appended whatever the list holds.
get_factors_last(features, risk_score) ==
    LET l == FactorList(features)
    IN  [exc |-> "none",
         factors |-> SubSeq(l, Len(l) - Min2(3, Len(l)) + 1, Len(l))]

get_factors_always_fallback(features, risk_score) ==
    [exc |-> "none",
     factors |-> Take(<< Fallback >> \o FactorList(features), 3)]

\* SimplePredictor._get_factors: [exc, factors].  A gpa_trend that is a
\* string makes the comparison of line 214 a TypeError.
get_factors(features, risk_score) ==
    IF Feature(features, "gpa_trend").k = "str"
    THEN [exc |-> "TypeError", factors |-> << >>]
    ELSE [exc |-> "none", factors |-> Take(FactorList(features), 3)]

\* A variant of _get_recommendations that adds a step for a heavy load.
get_recommendations_by_factor(risk_level, factors) ==
    IF \E i \in 1..Len(factors) : factors[i].text = "Heavy course load"
    THEN << "Consider course load reduction" >>
    ELSE << "Continue regular monitoring", "Maintain current support level" >>

\* SimplePredictor._get_recommendations
get_recommendations(risk_level, factors) ==
    IF risk_level = "HIGH"
    THEN << "Schedule immediate academic advisor meeting",
            "Enroll in academic support program",
            "Consider course load reduction" >>
    ELSE IF risk_level = "MEDIUM"
    THEN << "Monitor attendance closely",
            "Provide study skills resources",
            "Schedule regular check-ins" >>
    ELSE << "Continue regular monitoring",
            "Maintain current support level" >>

\* What predict hands back: exc is the exception it raised ("none": it
\* returned the result dictionary), invoked whether predict_proba was
\* called.
Raised(exc, invoked) ==
    [exc |-> exc, invoked |-> invoked, risk_score |-> 0, risk_level |-> "",
     confidence |-> 0, contributing_factors |-> << >>,
     recommendations |-> << >>]

\* A variant of predict that engineers the features before it looks at the
\* model.
predict_engineering_first(model, data) ==
    LET features == engineer_features(data)
        proba == predict_proba(model, features)
        risk_score == proba.p
        risk_level == RiskLevel(risk_score)
        got == get_factors(features.f, risk_score)
    IN  IF features.exc # "none" THEN Raised(features.exc, FALSE)
        ELSE IF ~model.loaded THEN Raised("ValueError", FALSE)
        ELSE IF proba.exc # "none" THEN Raised(proba.exc, TRUE)
        ELSE IF got.exc # "none" THEN Raised(got.exc, TRUE)
        ELSE [exc |-> "none", invoked |-> TRUE,
              risk_score |-> risk_score,
              risk_level |-> risk_level,
              confidence |-> Confidence(risk_score),
              contributing_factors |-> got.factors,
              recommendations |->
                  get_recommendations(risk_level, got.factors)]

\* SimplePredictor.predict
predict(model, data) ==
    IF ~model.loaded THEN Raised("ValueError", FALSE)
    ELSE
    LET features == engineer_features(data)
        proba == predict_proba(model, features)
        risk_score == proba.p
        risk_level == RiskLevel(risk_score)
        got == get_factors(features.f, risk_score)
    IN  IF features.exc # "none" THEN Raised(features.exc, FALSE)
        ELSE IF proba.exc # "none" THEN Raised(proba.exc, TRUE)
        ELSE IF got.exc # "none" THEN Raised(got.exc, TRUE)
        ELSE [exc |-> "none", invoked |-> TRUE,
              risk_score |-> risk_score,
              risk_level |-> risk_level,
              confidence |-> Confidence(risk_score),
              contributing_factors |-> got.factors,
              recommendations |->
                  get_recommendations(risk_level, got.factors)]

-----------------------------------------------------------------------------
(* State.                                                                  *)
(*   artifact     the file simple_model.pkl                                *)
(*   started      whether the module-level predictor has been constructed  *)
(*   model        predictor.model                                          *)
(*   pc, request, response, index, predictions, proba_calls                *)
(*                one entry per request thread of the threaded server:     *)
(*                where its handler stands, the request it serves, the     *)
(*                response it returned, the batch loop's position and      *)
(*                list, and how often it has called predict_proba          *)
(*   data, clf, features, result, stage                                    *)
(*                a direct call of the predictor's methods: its            *)
(*                arguments, what engineer_features and predict handed     *)
(*                back, and how far the call has come                      *)

VARIABLES artifact, started, model,
          pc, request, response, index, predictions, proba_calls,
          data, clf, features, result, stage

vars == << artifact, started, model,
           pc, request, response, index, predictions, proba_calls,
           data, clf, features, result, stage >>

service_vars == << artifact, started, model,
                   pc, request, response, index, predictions, proba_calls >>

call_vars == << data, clf, features, result, stage >>

\* The probabilities a classifier of the model answers with (1/100000).
ProbTable == << 0, 39000, 39996, 40000, 50000, 69000, 69996, 70000, 100000 >>

Seeds == 0..(Len(ProbTable) - 1)

Object(o) == [k |-> "obj", o |-> o, n |-> 1]

\* The record of tests/manual_test.py's high-risk case.
HighRiskRecord ==
    [EmptyObject EXCEPT !["student_id"] = Str(1),
                        !["current_gpa"] = Num(2000),
                        !["attendance_rate"] = Num(5500),
                        !["total_credits"] = Num(12),
                        !["gpa_trend"] = Num(-40)]

\* Well-typed student records: every recognised field absent, null or a
\* value of its type, around the thresholds of the program.
FieldValues(c) ==
    CASE c = "current_gpa" -> {Absent, Null, Num(2000), Num(2499), Num(3000)}
      [] c = "attendance_rate" ->
            {Absent, Null, Num(5500), Num(6999), Num(7000)}
      [] c = "total_credits" -> {Absent, Null, Num(12), Num(18), Num(19)}
      [] c = "gpa_trend" -> {Absent, Null, Num(-40), Num(-10)}
      [] c = "course_difficulty_avg" -> {Absent, Null, Num(45), Num(-1)}
      [] c = "credits_attempted" -> {Absent, Null, Num(60)}
      [] c = "age" -> {Absent, Null, Num(19)}
      [] c = "is_first_generation" -> {Absent, Null, Bool(TRUE)}
      [] OTHER -> {Absent}

WellTypedRecords ==
    { [EmptyObject EXCEPT !["current_gpa"] = g, !["attendance_rate"] = a,
                          !["total_credits"] = c, !["gpa_trend"] = t,
                          !["course_difficulty_avg"] = d,
                          !["credits_attempted"] = ca, !["age"] = ag,
                          !["is_first_generation"] = fg] :
        g \in FieldValues("current_gpa"),
        a \in FieldValues("attendance_rate"),
        c \in FieldValues("total_credits"),
        t \in FieldValues("gpa_trend"),
        d \in FieldValues("course_difficulty_avg"),
        ca \in FieldValues("credits_attempted"),
        ag \in FieldValues("age"),
        fg \in FieldValues("is_first_generation") }

\* A grid of risk scores over [0, 1] with the values next to the
\* thresholds, and two scores that only a classifier without the
\* probability contract answers.
ScoreGrid == { 1000 * i : i \in 0..100 }
             \cup {39996, 39999, 40001, 69996, 69999, 70001}
             \cup {-20000, 130000}

\* A classifier that answers p for every vector.
Constant(p) == Classifier(0, << p >>)

SampleRecords ==
    { EmptyObject, HighRiskRecord,
      [HighRiskRecord EXCEPT !["total_credits"] = Num(19)],
      [EmptyObject EXCEPT !["total_credits"] = Num(19)] }

\* A direct call: every well-typed record with one forest, and a few
\* records with every score of the grid.
InitCall ==
    /\ stage = "called"
    /\ features = [exc |-> "none", rows |-> 0, f |-> NoFeatures]
    /\ result = Raised("none", FALSE)
    /\ \/ /\ data \in { Object(o) : o \in WellTypedRecords }
          /\ clf = Classifier(0, ProbTable)
       \/ /\ data \in { Object(o) : o \in SampleRecords }
          /\ clf \in { Constant(p) : p \in ScoreGrid }

NoCall ==
    /\ stage = "none"
    /\ data = Object(EmptyObject)
    /\ clf = None
    /\ features = [exc |-> "none", rows |-> 0, f |-> NoFeatures]
    /\ result = Raised("none", FALSE)

\* predictor.engineer_features(data)
EngineerFeatures ==
    /\ stage = "called"
    /\ features' = engineer_features(data)
    /\ stage' = "engineered"
    /\ UNCHANGED << data, clf, result >>
    /\ UNCHANGED service_vars

\* predictor.predict(data)
Predict ==
    /\ stage = "engineered"
    /\ result' = predict(clf, data)
    /\ stage' = "predicted"
    /\ UNCHANGED << data, clf, features >>
    /\ UNCHANGED service_vars

-----------------------------------------------------------------------------
(* The HTTP service.                                                       *)
(* A request body is [k, o, sk, a]: k = "malformed" (request.json raises   *)
(* BadRequest), "null", "num" (a non-zero number), "obj" (o holds its      *)
(* record keys, sk the JSON type of its 'students' member, "absent" for    *)
(* none, and a the member's elements when it is a list) or "arr" (a holds  *)
(* its elements).  An element of a batch is [k, o, n] as engineer_features *)
(* takes it.                                                               *)

Threads == {1, 2}

MaxBatch == 2

NoBody == [k |-> "null", o |-> EmptyObject, sk |-> "absent", a |-> << >>]

ObjectBody(o) == [k |-> "obj", o |-> o, sk |-> "absent", a |-> << >>]

ArrayBody(a) == [k |-> "arr", o |-> EmptyObject, sk |-> "absent", a |-> a]

StudentsBody(a) == [k |-> "obj", o |-> EmptyObject, sk |-> "list", a |-> a]

NoRequest == [route |-> "none", body |-> NoBody]

NoResponse ==
    [status |-> 0, success |-> FALSE, code |-> "", message |-> "",
     missing |-> << >>, data |-> << >>, total_students |-> 0,
     model_loaded |-> FALSE]

\* error.message of the error object with the given code; the message of
\* MISSING_FIELDS ends with the fields of `missing`.
Message(code) ==
    CASE code = "INVALID_REQUEST" -> "Request body must be JSON"
      [] code = "MISSING_FIELDS" -> "Missing required fields: "
      [] code = "PREDICTION_ERROR" -> "Prediction failed"
      [] code = "INVALID_FORMAT" -> "Expected 'students' array or direct array"
      [] code = "INVALID_DATA" -> "Students data must be non-empty array"
      [] code = "BATCH_ERROR" -> "Batch prediction failed"
      [] code = "NOT_FOUND" -> "Endpoint not found"
      [] code = "INTERNAL_ERROR" -> "Internal server error"
      [] code = "HEALTH_CHECK_FAILED" -> "Health check failed"
      [] OTHER -> ""

\* A variant of the error object that carries the code alone.
ErrorResponseBare(status, code, missing) ==
    [NoResponse EXCEPT !.status = status, !.code = code, !.missing = missing]

\* jsonify({"success": False, "error": {"message", "code", ...}}), status
ErrorResponse(status, code, missing) ==
    [NoResponse EXCEPT !.status = status, !.code = code,
                       !.message = Message(code), !.missing = missing]

\* The truth value Python gives request.json in `not request.json`.
Truthy(body) ==
    CASE body.k = "null" -> FALSE
      [] body.k = "num" -> TRUE
      [] body.k = "obj" -> Columns(body.o) # {} \/ body.sk # "absent"
      [] body.k = "arr" -> body.a # << >>
      [] OTHER -> FALSE

\* round(x, 4) of a value on the 1/100000 grid.
Round4(x) == 10 * RoundTenth(x)

\* dict.get('student_id', default)
GetStudentId(o, default) ==
    IF "student_id" \in Columns(o) THEN o["student_id"] ELSE default

\* The entry built from predict's result, lines 313-321 and 385-392.
ResultEntry(student_id, r) ==
    [student_id |-> student_id,
     risk_score |-> Round4(r.risk_score),
     risk_level |-> r.risk_level,
     confidence |-> Round4(r.confidence),
     contributing_factors |-> r.contributing_factors,
     recommendations |-> r.recommendations]

\* The entry of a record whose prediction raised, lines 395-398.
ErrorEntry(student_id, exc) == [student_id |-> student_id, error |-> exc]

required == << "current_gpa", "attendance_rate", "total_credits" >>

\* A variant of the required-field check that also counts a null value
\* as missing.
MissingOrNull(body) ==
    LET absent(f) == body.k = "arr" \/ body.o[f].t \in {"absent", "null"}
        pick(f) == IF absent(f) THEN << f >> ELSE << >>
    IN  pick(required[1]) \o pick(required[2]) \o pick(required[3])

\* [f for f in required if f not in request.json] on a JSON object or
\* array (no array of the model holds a field name as an element).
Missing(body) ==
    LET absent(f) == body.k = "arr" \/ f \notin Columns(body.o)
        pick(f) == IF absent(f) THEN << f >> ELSE << >>
    IN  pick(required[1]) \o pick(required[2]) \o pick(required[3])

\* predict_student, the whole handler: [response, calls].
predict_student(m, body) ==
    IF body.k = "malformed"
    THEN [response |-> ErrorResponse(500, "PREDICTION_ERROR", << >>),
          calls |-> 0]
    ELSE IF ~Truthy(body)
    THEN [response |-> ErrorResponse(400, "INVALID_REQUEST", << >>),
          calls |-> 0]
    ELSE IF body.k = "num"
    THEN [response |-> ErrorResponse(500, "PREDICTION_ERROR", << >>),
          calls |-> 0]
    ELSE IF Missing(body) # << >>
    THEN [response |-> ErrorResponse(400, "MISSING_FIELDS", Missing(body)),
          calls |-> 0]
    ELSE LET r == predict(m, Object(body.o))
         IN  IF r.exc # "none"
             THEN [response |->
                       ErrorResponse(500, "PREDICTION_ERROR", << >>),
                   calls |-> IF r.invoked THEN 1 ELSE 0]
             ELSE [response |->
                       [NoResponse EXCEPT
                           !.status = 200, !.success = TRUE,
                           !.data = << ResultEntry(
                               GetStudentId(body.o, [t |-> "unknown", v |-> 0]),
                               r) >>],
                   calls |-> 1]

\* Bodies sent to POST /api/predict/student.
StudentRecords ==
    { [EmptyObject EXCEPT !["current_gpa"] = g, !["attendance_rate"] = a,
                          !["total_credits"] = c, !["gpa_trend"] = t,
                          !["student_id"] = id] :
        g \in {Absent, Null, Num(2000), Str(0)},
        a \in {Absent, Null, Num(5500)},
        c \in {Absent, Null, Num(19)},
        t \in {Absent, Num(-40)},
        id \in {Absent, Str(1)} }

StudentBodies ==
    { ObjectBody(o) : o \in StudentRecords }
    \cup { [NoBody EXCEPT !.k = k] : k \in {"malformed", "null", "num"} }
    \cup { ArrayBody(<< >>), ArrayBody(<< Object(HighRiskRecord) >>) }

\* Elements of a batch: records that predict, records that lack required
\* fields, records on which feature engineering or the classifier raises,
\* and JSON values that are no object.
LowRiskRecord ==
    [EmptyObject EXCEPT !["current_gpa"] = Num(3800),
                        !["attendance_rate"] = Num(9500),
                        !["total_credits"] = Num(16)]

BatchElements ==
    { Object(HighRiskRecord),
      Object(LowRiskRecord),
      Object(EmptyObject),
      Object([EmptyObject EXCEPT !["student_id"] = Str(2),
                                 !["attendance_rate"] = Num(5500)]),
      Object([HighRiskRecord EXCEPT !["current_gpa"] = Str(0)]),
      Object([LowRiskRecord EXCEPT !["total_credits"] = Num(19),
                                   !["course_difficulty_avg"] = Num(-1)]),
      [k |-> "num", o |-> EmptyObject, n |-> 0],
      [k |-> "list", o |-> HighRiskRecord, n |-> 1] }

Batches == UNION { [1..n -> BatchElements] : n \in 0..MaxBatch }

BatchBodies ==
    { ArrayBody(a) : a \in Batches }
    \cup { StudentsBody(a) : a \in Batches }
    \cup { [NoBody EXCEPT !.k = k] : k \in {"malformed", "null", "num"} }
    \cup { ObjectBody(HighRiskRecord), ObjectBody(EmptyObject) }
    \cup { [StudentsBody(<< >>) EXCEPT !.sk = k] : k \in {"null", "num"} }

Requests ==
    { [route |-> "student", body |-> b] : b \in StudentBodies }
    \cup { [route |-> "batch", body |-> b] : b \in BatchBodies }
    \cup { [route |-> r, body |-> NoBody] : r \in {"health", "unknown"} }

\* The file simple_model.pkl before the service starts.
Artifacts ==
    { [state |-> "absent", clf |-> None], [state |-> "corrupt", clf |-> None] }
    \cup { [state |-> "ok", clf |-> Classifier(s, ProbTable)] : s \in Seeds }

InitService ==
    /\ artifact \in Artifacts
    /\ started = FALSE
    /\ model = None
    /\ pc = [t \in Threads |-> "idle"]
    /\ request = [t \in Threads |-> NoRequest]
    /\ response = [t \in Threads |-> NoResponse]
    /\ index = [t \in Threads |-> 0]
    /\ predictions = [t \in Threads |-> << >>]
    /\ proba_calls = [t \in Threads |-> 0]

NoService ==
    /\ artifact = [state |-> "absent", clf |-> None]
    /\ started = FALSE
    /\ model = None
    /\ pc = [t \in Threads |-> "idle"]
    /\ request = [t \in Threads |-> NoRequest]
    /\ response = [t \in Threads |-> NoResponse]
    /\ index = [t \in Threads |-> 0]
    /\ predictions = [t \in Threads |-> << >>]
    /\ proba_calls = [t \in Threads |-> 0]

\* How the training branch of _create_model ends: the forest was trained
\* and saved; training, or opening the file for writing, raised; or
\* pickle.dump raised after open(..., 'wb') had created the file.
TrainingOutcomes == {"saved", "failed", "partial"}

\* A variant of _create_model that keeps the trained forest when it could
\* not be saved.
StartupKeepingUnsaved ==
    /\ ~started
    /\ started' = TRUE
    /\ \/ /\ artifact.state = "ok"
          /\ model' = artifact.clf
          /\ UNCHANGED artifact
       \/ /\ artifact.state = "corrupt"
          /\ model' = None
          /\ UNCHANGED artifact
       \/ /\ artifact.state = "absent"
          /\ \E s \in Seeds, outcome \in TrainingOutcomes :
                /\ model' = Classifier(s, ProbTable)
                /\ artifact' =
                      CASE outcome = "saved" -> [state |-> "ok", clf |-> model']
                        [] outcome = "partial" ->
                              [state |-> "corrupt", clf |-> None]
                        [] OTHER -> artifact
    /\ UNCHANGED << pc, request, response, index, predictions, proba_calls >>
    /\ UNCHANGED call_vars

\* SimplePredictor.__init__ and _create_model: load the artifact if there
\* is one, else train a forest and save it; any exception leaves model None.
Startup ==
    /\ ~started
    /\ started' = TRUE
    /\ \/ /\ artifact.state = "ok"
          /\ model' = artifact.clf
          /\ UNCHANGED artifact
       \/ /\ artifact.state = "corrupt"
          /\ model' = None
          /\ UNCHANGED artifact
       \/ /\ artifact.state = "absent"
          /\ \E s \in Seeds, outcome \in TrainingOutcomes :
                /\ model' = IF outcome = "saved"
                            THEN Classifier(s, ProbTable)
                            ELSE None
                /\ artifact' =
                      CASE outcome = "saved" -> [state |-> "ok", clf |-> model']
                        [] outcome = "partial" ->
                              [state |-> "corrupt", clf |-> None]
                        [] OTHER -> artifact
    /\ UNCHANGED << pc, request, response, index, predictions, proba_calls >>
    /\ UNCHANGED call_vars

\* A request reaches the server and is given to thread t.
Receive(t) ==
    /\ started
    /\ pc[t] = "idle"
    /\ \E r \in Requests :
          /\ request' = [request EXCEPT ![t] = r]
          /\ pc' = [pc EXCEPT ![t] = r.route]
    /\ response' = [response EXCEPT ![t] = NoResponse]
    /\ index' = [index EXCEPT ![t] = 0]
    /\ predictions' = [predictions EXCEPT ![t] = << >>]
    /\ proba_calls' = [proba_calls EXCEPT ![t] = 0]
    /\ UNCHANGED << artifact, started, model >>
    /\ UNCHANGED call_vars

Return(t, r) ==
    /\ response' = [response EXCEPT ![t] = r]
    /\ pc' = [pc EXCEPT ![t] = "done"]

\* health_check
HealthCheck(t) ==
    /\ pc[t] = "health"
    /\ Return(t, [NoResponse EXCEPT !.status = 200, !.success = TRUE,
                                    !.model_loaded = model.loaded])
    /\ UNCHANGED << artifact, started, model, request, index, predictions,
                    proba_calls >>
    /\ UNCHANGED call_vars

\* not_found
NotFound(t) ==
    /\ pc[t] = "unknown"
    /\ Return(t, ErrorResponse(404, "NOT_FOUND", << >>))
    /\ UNCHANGED << artifact, started, model, request, index, predictions,
                    proba_calls >>
    /\ UNCHANGED call_vars

\* predict_student
PredictStudent(t) ==
    /\ pc[t] = "student"
    /\ LET out == predict_student(model, request[t].body)
       IN  /\ Return(t, out.response)
           /\ proba_calls' = [proba_calls EXCEPT ![t] = out.calls]
    /\ UNCHANGED << artifact, started, model, request, index, predictions >>
    /\ UNCHANGED call_vars

\* predict_batch, lines 344-381: [code, status] of the rejection, or
\* code "" when the loop is entered.
BatchValidation(body) ==
    IF body.k = "malformed" THEN [status |-> 500, code |-> "BATCH_ERROR"]
    ELSE IF ~Truthy(body) THEN [status |-> 400, code |-> "INVALID_REQUEST"]
    ELSE IF body.k = "num" THEN [status |-> 500, code |-> "BATCH_ERROR"]
    ELSE IF body.k = "obj" /\ body.sk = "absent"
    THEN [status |-> 400, code |-> "INVALID_FORMAT"]
    ELSE IF (body.k = "obj" /\ body.sk # "list") \/ body.a = << >>
    THEN [status |-> 400, code |-> "INVALID_DATA"]
    ELSE [status |-> 0, code |-> ""]

\* students_data of predict_batch.
StudentsData(body) == body.a

BatchValidate(t) ==
    /\ pc[t] = "batch"
    /\ LET v == BatchValidation(request[t].body)
       IN  IF v.code # ""
           THEN Return(t, ErrorResponse(v.status, v.code, << >>))
           ELSE /\ pc' = [pc EXCEPT ![t] = "loop"]
                /\ UNCHANGED response
    /\ UNCHANGED << artifact, started, model, request, index, predictions,
                    proba_calls >>
    /\ UNCHANGED call_vars

\* student_data.get('student_id', f'student_{i+1}') raises AttributeError
\* on a JSON value that is no object.
HasGet(student_data) == student_data.k = "obj"

\* A variant of the loop body that lets a failed record drop out.
BatchEntryDropping(m, student_data, i) ==
    LET r == predict(m, student_data)
        id == GetStudentId(student_data.o, [t |-> "student_", v |-> i + 1])
    IN  IF ~HasGet(student_data)
        THEN [exc |-> "AttributeError", entry |-> << >>, invoked |-> r.invoked]
        ELSE IF r.exc = "none"
        THEN [exc |-> "none", entry |-> << ResultEntry(id, r) >>,
              invoked |-> r.invoked]
        ELSE [exc |-> "none", entry |-> << >>, invoked |-> r.invoked]

\* A variant of the loop body that demands the required fields of every
\* record, as predict_student does.
BatchEntryRequiring(m, student_data, i) ==
    LET r == predict(m, student_data)
        id == GetStudentId(student_data.o, [t |-> "student_", v |-> i + 1])
    IN  IF ~HasGet(student_data)
        THEN [exc |-> "AttributeError", entry |-> << >>, invoked |-> r.invoked]
        ELSE IF Missing(ObjectBody(student_data.o)) # << >>
        THEN [exc |-> "none", entry |-> << ErrorEntry(id, "MissingFields") >>,
              invoked |-> FALSE]
        ELSE IF r.exc = "none"
        THEN [exc |-> "none", entry |-> << ResultEntry(id, r) >>,
              invoked |-> r.invoked]
        ELSE [exc |-> "none", entry |-> << ErrorEntry(id, r.exc) >>,
              invoked |-> r.invoked]

\* One iteration of the loop of predict_batch, lines 382-398, for the
\* element student_data at 0-based position i: [exc, entry, invoked], exc
\* the exception that leaves the loop ("none": the entry was appended).
BatchEntry(m, student_data, i) ==
    LET r == predict(m, student_data)
        id == GetStudentId(student_data.o, [t |-> "student_", v |-> i + 1])
    IN  IF ~HasGet(student_data)
        THEN [exc |-> "AttributeError", entry |-> << >>, invoked |-> r.invoked]
        ELSE IF r.exc = "none"
        THEN [exc |-> "none", entry |-> << ResultEntry(id, r) >>,
              invoked |-> r.invoked]
        ELSE [exc |-> "none", entry |-> << ErrorEntry(id, r.exc) >>,
              invoked |-> r.invoked]

\* A variant of the loop body that tries a failed record again.
BatchPredictOneRetrying(t) ==
    /\ pc[t] = "loop"
    /\ index[t] < Len(StudentsData(request[t].body))
    /\ LET e == BatchEntry(model, StudentsData(request[t].body)[index[t] + 1],
                           index[t])
       IN  /\ proba_calls' = [proba_calls EXCEPT
                                 ![t] = @ + IF e.invoked THEN 1 ELSE 0]
           /\ IF e.exc # "none"
              THEN /\ Return(t, ErrorResponse(500, "BATCH_ERROR", << >>))
                   /\ UNCHANGED << index, predictions >>
              ELSE IF "error" \in DOMAIN e.entry[1]
              THEN UNCHANGED << index, predictions, pc, response >>
              ELSE /\ predictions' = [predictions EXCEPT ![t] = @ \o e.entry]
                   /\ index' = [index EXCEPT ![t] = @ + 1]
                   /\ UNCHANGED << pc, response >>
    /\ UNCHANGED << artifact, started, model, request >>
    /\ UNCHANGED call_vars

\* A variant of the loop body that keeps the predictions in one list shared
\* by all request threads.
BatchPredictOneShared(t) ==
    /\ pc[t] = "loop"
    /\ index[t] < Len(StudentsData(request[t].body))
    /\ LET e == BatchEntry(model, StudentsData(request[t].body)[index[t] + 1],
                           index[t])
       IN  /\ proba_calls' = [proba_calls EXCEPT
                                 ![t] = @ + IF e.invoked THEN 1 ELSE 0]
           /\ IF e.exc # "none"
              THEN /\ Return(t, ErrorResponse(500, "BATCH_ERROR", << >>))
                   /\ UNCHANGED << index, predictions >>
              ELSE /\ predictions' = [u \in Threads |->
                                         predictions[u] \o e.entry]
                   /\ index' = [index EXCEPT ![t] = @ + 1]
                   /\ UNCHANGED << pc, response >>
    /\ UNCHANGED << artifact, started, model, request >>
    /\ UNCHANGED call_vars

\* A variant of the loop body that hands the predictor the whole list at
\* every record, so that every slot holds the outcome of the list's first
\* row.
BatchPredictOneWholeList(t) ==
    /\ pc[t] = "loop"
    /\ index[t] < Len(StudentsData(request[t].body))
    /\ LET e == BatchEntry(model, StudentsData(request[t].body)[1], index[t])
       IN  /\ proba_calls' = [proba_calls EXCEPT
                                 ![t] = @ + IF e.invoked THEN 1 ELSE 0]
           /\ IF e.exc # "none"
              THEN /\ Return(t, ErrorResponse(500, "BATCH_ERROR", << >>))
                   /\ UNCHANGED << index, predictions >>
              ELSE /\ predictions' = [predictions EXCEPT ![t] = @ \o e.entry]
                   /\ index' = [index EXCEPT ![t] = @ + 1]
                   /\ UNCHANGED << pc, response >>
    /\ UNCHANGED << artifact, started, model, request >>
    /\ UNCHANGED call_vars

\* predict_batch, lines 382-398: one iteration of the loop.
BatchPredictOne(t) ==
    /\ pc[t] = "loop"
    /\ index[t] < Len(StudentsData(request[t].body))
    /\ LET e == BatchEntry(model, StudentsData(request[t].body)[index[t] + 1],
                           index[t])
       IN  /\ proba_calls' = [proba_calls EXCEPT
                                 ![t] = @ + IF e.invoked THEN 1 ELSE 0]
           /\ IF e.exc # "none"
              THEN /\ Return(t, ErrorResponse(500, "BATCH_ERROR", << >>))
                   /\ UNCHANGED << index, predictions >>
              ELSE /\ predictions' = [predictions EXCEPT ![t] = @ \o e.entry]
                   /\ index' = [index EXCEPT ![t] = @ + 1]
                   /\ UNCHANGED << pc, response >>
    /\ UNCHANGED << artifact, started, model, request >>
    /\ UNCHANGED call_vars

\* predict_batch, lines 400-408.
BatchRespond(t) ==
    /\ pc[t] = "loop"
    /\ index[t] = Len(StudentsData(request[t].body))
    /\ Return(t, [NoResponse EXCEPT !.status = 200, !.success = TRUE,
                                    !.data = predictions[t],
                                    !.total_students = Len(predictions[t])])
    /\ UNCHANGED << artifact, started, model, request, index, predictions,
                    proba_calls >>
    /\ UNCHANGED call_vars

\* The client has read the response; the thread is free again.
Deliver(t) ==
    /\ pc[t] = "done"
    /\ pc' = [pc EXCEPT ![t] = "idle"]
    /\ request' = [request EXCEPT ![t] = NoRequest]
    /\ response' = [response EXCEPT ![t] = NoResponse]
    /\ index' = [index EXCEPT ![t] = 0]
    /\ predictions' = [predictions EXCEPT ![t] = << >>]
    /\ proba_calls' = [proba_calls EXCEPT ![t] = 0]
    /\ UNCHANGED << artifact, started, model >>
    /\ UNCHANGED call_vars

Handle(t) ==
    \/ Receive(t)
    \/ HealthCheck(t)
    \/ NotFound(t)
    \/ PredictStudent(t)
    \/ BatchValidate(t)
    \/ BatchPredictOne(t)
    \/ BatchRespond(t)
    \/ Deliver(t)

\* The service with its requests served one at a time.
Init == InitService /\ NoCall

Next == Startup \/ Handle(1)

Spec == Init /\ [][Next]_vars

\* Direct calls of the predictor's methods.
NextCall == EngineerFeatures \/ Predict

InitDirect == NoService /\ InitCall

SpecCall == InitDirect /\ [][NextCall]_vars

\* Records whose numeric fields are absent, a number, or a string that is
\* not a number.
MalformedValues(c) ==
    CASE c = "current_gpa" -> {Absent, Num(2000), Str(0)}
      [] c = "attendance_rate" -> {Absent, Num(5500), Str(0)}
      [] c = "total_credits" -> {Absent, Num(19), Str(0)}
      [] c = "gpa_trend" -> {Absent, Num(-40), Str(0)}
      [] c = "course_difficulty_avg" -> {Absent, Num(45), Str(0)}
      [] c = "credits_attempted" -> {Absent, Num(60), Str(0)}
      [] c = "age" -> {Absent, Num(19), Str(0)}
      [] OTHER -> {Absent}

MalformedRecords ==
    { [EmptyObject EXCEPT !["current_gpa"] = g, !["attendance_rate"] = a,
                          !["total_credits"] = c, !["gpa_trend"] = t,
                          !["course_difficulty_avg"] = d,
                          !["credits_attempted"] = ca, !["age"] = ag] :
        g \in MalformedValues("current_gpa"),
        a \in MalformedValues("attendance_rate"),
        c \in MalformedValues("total_credits"),
        t \in MalformedValues("gpa_trend"),
        d \in MalformedValues("course_difficulty_avg"),
        ca \in MalformedValues("credits_attempted"),
        ag \in MalformedValues("age") }

\* Direct calls of the predictor's methods on records with malformed
\* values.
InitMalformed ==
    /\ NoService
    /\ stage = "called"
    /\ features = [exc |-> "none", rows |-> 0, f |-> NoFeatures]
    /\ result = Raised("none", FALSE)
    /\ data \in { Object(o) : o \in MalformedRecords }
    /\ clf = Classifier(0, ProbTable)

SpecMalformed == InitMalformed /\ [][NextCall]_vars

\* Requests that arrive while another is being served (app.run with
\* threaded=True): one of each route and outcome.
ConcurrentRequests ==
    { [route |-> r, body |-> NoBody] : r \in {"health", "unknown"} }
    \cup { [route |-> "student", body |-> ObjectBody(o)] :
               o \in {HighRiskRecord, EmptyObject} }
    \cup { [route |-> "batch", body |-> ArrayBody(a)] :
               a \in { << Object(HighRiskRecord), Object(LowRiskRecord) >>,
                       << Object(EmptyObject),
                          [k |-> "num", o |-> EmptyObject, n |-> 0] >>,
                       << >> } }

\* A request of ConcurrentRequests reaches the server and is given to
\* thread t.
ReceiveConcurrent(t) ==
    /\ started
    /\ pc[t] = "idle"
    /\ \E r \in ConcurrentRequests :
          /\ request' = [request EXCEPT ![t] = r]
          /\ pc' = [pc EXCEPT ![t] = r.route]
    /\ response' = [response EXCEPT ![t] = NoResponse]
    /\ index' = [index EXCEPT ![t] = 0]
    /\ predictions' = [predictions EXCEPT ![t] = << >>]
    /\ proba_calls' = [proba_calls EXCEPT ![t] = 0]
    /\ UNCHANGED << artifact, started, model >>
    /\ UNCHANGED call_vars

HandleConcurrent(t) ==
    \/ ReceiveConcurrent(t)
    \/ HealthCheck(t)
    \/ NotFound(t)
    \/ PredictStudent(t)
    \/ BatchValidate(t)
    \/ BatchPredictOne(t)
    \/ BatchRespond(t)
    \/ Deliver(t)

\* The service with two request threads, every interleaving of their steps.
NextConcurrent == Startup \/ \E t \in Threads : HandleConcurrent(t)

SpecConcurrent == Init /\ [][NextConcurrent]_vars

\* The scores of two forests that answer differently.
MixedScores == {20000, 80000}

\* Records whose four factor fields lie around the thresholds and whose
\* other fields are absent, a number or, for age, a JSON boolean.
MixedRecords ==
    { [EmptyObject EXCEPT !["current_gpa"] = g, !["attendance_rate"] = a,
                          !["total_credits"] = c, !["gpa_trend"] = t,
                          !["course_difficulty_avg"] = d,
                          !["credits_attempted"] = ca, !["age"] = ag,
                          !["is_first_generation"] = fg] :
        g \in {Absent, Null, Num(2000), Num(2499), Num(3000)},
        a \in {Absent, Num(5500), Num(7000)},
        c \in {Absent, Num(18), Num(19)},
        t \in {Absent, Num(-40), Num(-10)},
        d \in {Absent, Num(45), Num(-1)},
        ca \in {Absent, Num(60)},
        ag \in {Absent, Num(19), Bool(TRUE)},
        fg \in {Absent, Bool(TRUE)} }

\* Direct calls of the predictor's methods on the records of MixedRecords.
InitMixed ==
    /\ NoService
    /\ stage = "called"
    /\ features = [exc |-> "none", rows |-> 0, f |-> NoFeatures]
    /\ result = Raised("none", FALSE)
    /\ data \in { Object(o) : o \in MixedRecords }
    /\ clf \in { Constant(p) : p \in MixedScores }

SpecMixed == InitMixed /\ [][NextCall]_vars

\* generate_synthetic_data: the columns of the frame it returns, in order.
SyntheticColumns ==
    << "current_gpa", "attendance_rate", "total_credits", "gpa_trend",
       "study_hours_per_week", "family_income", "first_generation",
       "distance_from_home", "part_time_job", "previous_semester_gpa", "age",
       "high_school_gpa", "sat_score", "extracurricular_activities",
       "financial_aid", "dropout" >>

\* df.drop(columns=[name])
Drop(columns, name) == SelectSeq(columns, LAMBDA c : c # name)

\* scripts/train_model.py, train_and_save with the default output path: a
\* forest is fitted on the columns of generate_synthetic_data without
\* dropout and written to simple_model.pkl, whatever the file held.
TrainAndSave ==
    /\ ~started
    /\ \E s \in Seeds, strict \in BOOLEAN :
          artifact' =
             [state |-> "ok",
              clf |-> Fitted(s, ProbTable, Drop(SyntheticColumns, "dropout"),
                             strict)]
    /\ UNCHANGED << started, model, pc, request, response, index,
                    predictions, proba_calls >>
    /\ UNCHANGED call_vars

\* The training entry point, then the service.
NextTraining == TrainAndSave \/ Startup \/ Handle(1)

SpecTraining == Init /\ [][NextTraining]_vars

-----------------------------------------------------------------------------
(* Properties.                                                             *)

\* The defaults of the specification's data model, on the grids.
DocumentedDefault(c) ==
    CASE c = "current_gpa" -> 2500
      [] c = "attendance_rate" -> 8000
      [] c = "total_credits" -> 15
      [] c = "gpa_trend" -> 0
      [] c = "course_difficulty_avg" -> 30
      [] c = "credits_attempted" -> 45
      [] c = "age" -> 20
      [] c = "is_first_generation" -> 0

Missed(o, c) == o[c].t \in {"absent", "null"}

\* The value of field c of record o after the documented defaults.
Defaulted(o, c) == IF Missed(o, c) THEN DocumentedDefault(c) ELSE o[c].v

\* A cell that holds a number: not a missing value and not a string.
Numeric(cell) == cell.k \in {"num", "inf"}

\* C1: for every well-typed record in which any subset of the 8 recognised
\* fields is absent or null, engineer_features returns (it does not raise)
\* one row with exactly the 15 fields of feature_names in that order, every
\* one a number, and every absent or null field holds its documented
\* default (2.5, 0.8, 15, 0.0, 3.0, 45, 20, 0).
C1_CompleteVectorWithDefaults ==
    stage \in {"engineered", "predicted"} =>
        /\ features.exc = "none"
        /\ features.rows = 1
        /\ Len(features.f) = 15
        /\ \A i \in 1..15 :
              /\ features.f[i].name = feature_names[i]
              /\ Numeric(features.f[i].val)
        /\ \A c \in Fields :
              Missed(data.o, c) =>
                \E i \in 1..15 :
                    /\ features.f[i].name = c
                    /\ features.f[i].val = Cell(DocumentedDefault(c))

\* C1 witness: a record with a null field, an absent field and a given
\* field has been engineered.
C1_Witness ==
    /\ stage = "engineered"
    /\ data.o["current_gpa"].t = "null"
    /\ data.o["age"].t = "absent"
    /\ data.o["is_first_generation"].t = "null"
    /\ data.o["total_credits"] = Num(19)
    /\ features.f[1].val = Cell(2500)
    /\ features.f[14].val = Cell(20)
    /\ features.f[3].val = Cell(19)

Returned == stage = "predicted" /\ result.exc = "none"

Rank(level) == CASE level = "LOW" -> 0 [] level = "MEDIUM" -> 1
                 [] level = "HIGH" -> 2 [] OTHER -> -1

\* C2: risk_level is decided by risk_score alone: HIGH exactly when the
\* score is >= 0.7, MEDIUM exactly when 0.4 <= score < 0.7, LOW exactly
\* when score < 0.4 (0.69 -> MEDIUM, 0.70 -> HIGH, 0.39 -> LOW,
\* 0.40 -> MEDIUM); it is one of the three tiers, and no score below
\* another has a higher tier.
C2_RiskLevelThresholds ==
    Returned =>
        LET s == result.risk_score
            l == result.risk_level
        IN  /\ l \in {"LOW", "MEDIUM", "HIGH"}
            /\ (l = "HIGH") <=> (s >= 70000)
            /\ (l = "MEDIUM") <=> (40000 <= s /\ s < 70000)
            /\ (l = "LOW") <=> (s < 40000)
            /\ (s = 69000 => l = "MEDIUM") /\ (s = 70000 => l = "HIGH")
            /\ (s = 39000 => l = "LOW") /\ (s = 40000 => l = "MEDIUM")
            /\ \A s2 \in ScoreGrid :
                  /\ (s <= s2 => Rank(l) <= Rank(RiskLevel(s2)))
                  /\ (s2 <= s => Rank(RiskLevel(s2)) <= Rank(l))

\* C2 witness: a prediction with the score on the upper threshold.
C2_Witness == Returned /\ result.risk_score = 70000 /\ result.risk_level = "HIGH"

\* The texts of the conditions (a)..(d) that hold for record o, in order.
HoldingConditions(o) ==
    (IF Defaulted(o, "current_gpa") < 2500 THEN << "Low GPA" >> ELSE << >>)
    \o (IF Defaulted(o, "attendance_rate") < 7000
        THEN << "Poor attendance" >> ELSE << >>)
    \o (IF Defaulted(o, "total_credits") > 18
        THEN << "Heavy course load" >> ELSE << >>)
    \o (IF Defaulted(o, "gpa_trend") < -10
        THEN << "Declining academic performance" >> ELSE << >>)

Texts(factors) == [i \in 1..Len(factors) |-> factors[i].text]

\* C3: the factors are the strings of the first at most 3 of the conditions
\* (a) current_gpa < 2.5, (b) attendance_rate < 0.7, (c) total_credits > 18,
\* (d) gpa_trend < -0.1 that hold, in that order; there are between 1 and 3
\* of them; when all four hold the declining-performance string is left
\* out; and the record {2.0, 0.55, 12, -0.4} gets the low-GPA,
\* poor-attendance and declining-performance strings in that order.
C3_FactorsInPriorityOrder ==
    Returned =>
        LET held == HoldingConditions(data.o)
            got == result.contributing_factors
        IN  /\ Len(got) \in 1..3
            /\ (held # << >> => Texts(got) = Take(held, 3))
            /\ (Len(held) = 4 =>
                   \A i \in 1..Len(got) :
                       got[i].text # "Declining academic performance")
            /\ (data.o = HighRiskRecord =>
                   got = << Factor("Low GPA", 200),
                            Factor("Poor attendance", 550),
                            Factor("Declining academic performance", 0) >>)

\* C3 witness: all four conditions hold and three factors came back.
C3_Witness ==
    /\ Returned
    /\ Len(HoldingConditions(data.o)) = 4
    /\ Texts(result.contributing_factors)
           = << "Low GPA", "Poor attendance", "Heavy course load" >>

\* C4: when current_gpa >= 2.5, attendance_rate >= 0.7, total_credits <= 18
\* and gpa_trend >= -0.1 (after defaults) the factors are exactly the list
\* ["Multiple minor risk indicators"], and the fallback string never shares
\* a list with a specific factor.
C4_FallbackAlone ==
    Returned =>
        LET got == result.contributing_factors
        IN  /\ (HoldingConditions(data.o) = << >> =>
                   got = << Factor("Multiple minor risk indicators", 0) >>)
            /\ ((\E i \in 1..Len(got) :
                    got[i].text = "Multiple minor risk indicators")
                  => Len(got) = 1)

\* C4 witness: a record on the four boundaries got the fallback.
C4_Witness ==
    /\ Returned
    /\ data.o["current_gpa"].t = "absent"
    /\ data.o["attendance_rate"] = Num(7000)
    /\ data.o["total_credits"] = Num(18)
    /\ data.o["gpa_trend"] = Num(-10)
    /\ Texts(result.contributing_factors) = << "Multiple minor risk indicators" >>

\* C5: confidence = min(|risk_score - 0.5| * 2, 1.0): 0 at score 0.5, 1.0 at
\* scores 0.0 and 1.0, the same at s and 1 - s for s in [0, 1], and within
\* [0, 1] for every score.
C5_Confidence ==
    Returned =>
        LET s == result.risk_score
            c == result.confidence
            twice == IF s >= 50000 THEN 2 * s - 100000 ELSE 100000 - 2 * s
        IN  /\ c = (IF twice > 100000 THEN 100000 ELSE twice)
            /\ 0 <= c /\ c <= 100000
            /\ (s = 50000 => c = 0)
            /\ (s \in {0, 100000} => c = 100000)
            /\ (s \in 0..100000 => c = Confidence(100000 - s))

\* C5 witness: a prediction with score 0.5 and confidence 0.
C5_Witness == Returned /\ result.risk_score = 50000 /\ result.confidence = 0

Done(t, route) == pc[t] = "done" /\ request[t].route = route

\* An entry of a response that carries a prediction.
IsResult(e) == "risk_level" \in DOMAIN e

DocumentedRecommendations(level) ==
    CASE level = "HIGH" ->
            << "Schedule immediate academic advisor meeting",
               "Enroll in academic support program",
               "Consider course load reduction" >>
      [] level = "MEDIUM" ->
            << "Monitor attendance closely",
               "Provide study skills resources",
               "Schedule regular check-ins" >>
      [] level = "LOW" ->
            << "Continue regular monitoring",
               "Maintain current support level" >>

\* C6: the recommendations of every prediction in a response are the fixed
\* list of its risk_level (three strings for HIGH, three for MEDIUM, two for
\* LOW), and two predictions with the same risk_level carry the same
\* recommendations whatever their factors and records.
C6_RecommendationsByLevelOnly ==
    \A t \in Threads :
        pc[t] = "done" =>
            LET d == response[t].data
            IN  \A i \in 1..Len(d) :
                    IsResult(d[i]) =>
                        /\ d[i].recommendations
                              = DocumentedRecommendations(d[i].risk_level)
                        /\ \A j \in 1..Len(d) :
                              (IsResult(d[j])
                                 /\ d[j].risk_level = d[i].risk_level)
                              => d[j].recommendations = d[i].recommendations

\* C6 witness: a batch response with two predictions of the same level and
\* different factors.
C6_Witness ==
    /\ Done(1, "batch")
    /\ Len(response[1].data) = 2
    /\ IsResult(response[1].data[1])
    /\ IsResult(response[1].data[2])
    /\ response[1].data[1].risk_level = "HIGH"
    /\ response[1].data[2].risk_level = "HIGH"
    /\ response[1].data[1].contributing_factors
          # response[1].data[2].contributing_factors

RequiredFields == {"current_gpa", "attendance_rate", "total_credits"}

Lacking(o) == { f \in RequiredFields : o[f].t = "absent" }

Range(seq) == { seq[i] : i \in 1..Len(seq) }

\* C7: every POST /api/predict/student whose JSON object body lacks at least
\* one of current_gpa, attendance_rate, total_credits is answered 400 with
\* success false and code MISSING_FIELDS, the message names exactly the
\* absent required fields, and the classifier is not invoked.
C7_MissingFieldsRejected ==
    \A t \in Threads :
        (Done(t, "student") /\ request[t].body.k = "obj"
           /\ Lacking(request[t].body.o) # {})
        => /\ response[t].status = 400
           /\ ~response[t].success
           /\ response[t].code = "MISSING_FIELDS"
           /\ Range(response[t].missing) = Lacking(request[t].body.o)
           /\ proba_calls[t] = 0

\* The identifier a batch answers element e at 0-based position i with.
Identifier(e, i) ==
    IF e.k = "obj" /\ e.o["student_id"].t # "absent"
    THEN e.o["student_id"]
    ELSE [t |-> "student_", v |-> i + 1]

\* The outcome of the record e at 0-based position i: its prediction, or
\* an error entry with its identifier.
Outcome(m, e, i) ==
    LET r == predict(m, e)
    IN  IF e.k = "obj" /\ r.exc = "none"
        THEN [student_id |-> Identifier(e, i),
              risk_score |-> Round4(r.risk_score),
              risk_level |-> r.risk_level,
              confidence |-> Round4(r.confidence),
              contributing_factors |-> r.contributing_factors,
              recommendations |-> r.recommendations]
        ELSE [student_id |-> Identifier(e, i),
              error |-> IF r.exc = "none" THEN "AttributeError" ELSE r.exc]

\* C8: when predicting one record of a batch fails for any reason, the
\* batch is not aborted: the response is 200, the record's slot holds an
\* error entry with the record's identifier and no risk fields, and every
\* other slot holds the result of its record.
C8_FailedRecordDoesNotAbort ==
    \A t \in Threads :
        (Done(t, "batch") /\ BatchValidation(request[t].body).code = "")
        => LET a == StudentsData(request[t].body)
               d == response[t].data
           IN  /\ response[t].status = 200
               /\ Len(d) = Len(a)
               /\ \A i \in 1..Len(a) :
                     /\ d[i] = Outcome(model, a[i], i - 1)
                     /\ (~IsResult(d[i]) =>
                            DOMAIN d[i] = {"student_id", "error"})

\* C9: for every accepted batch of n >= 1 records the response is 200, its
\* predictions list has exactly n entries, total_students is n, and the
\* i-th entry is the outcome (result or error) of the i-th record; while
\* the loop runs the list holds the outcomes of the records passed so far.
C9_BatchOrderAndCount ==
    \A t \in Threads :
        LET a == StudentsData(request[t].body)
        IN  /\ pc[t] = "loop" =>
                  /\ index[t] <= Len(a)
                  /\ Len(predictions[t]) = index[t]
                  /\ \A i \in 1..index[t] :
                        predictions[t][i] = Outcome(model, a[i], i - 1)
            /\ (Done(t, "batch")
                  /\ BatchValidation(request[t].body).code = ""
                  /\ \A i \in 1..Len(a) : a[i].k = "obj")
               => response[t].status = 200
            /\ (Done(t, "batch") /\ response[t].status = 200) =>
                  /\ Len(a) >= 1
                  /\ Len(response[t].data) = Len(a)
                  /\ response[t].total_students = Len(a)
                  /\ \A i \in 1..Len(a) :
                        response[t].data[i] = Outcome(model, a[i], i - 1)

\* C9 witness: a batch of two records answered with an error entry and a
\* result, in the records' order.
C9_Witness ==
    /\ Done(1, "batch")
    /\ response[1].status = 200
    /\ Len(StudentsData(request[1].body)) = 2
    /\ response[1].total_students = 2
    /\ ~IsResult(response[1].data[1])
    /\ IsResult(response[1].data[2])
    /\ response[1].data[1].student_id = Str(1)
    /\ response[1].data[2].student_id = [t |-> "student_", v |-> 2]

\* Record o with the documented defaults written into the required fields
\* it lacks.
Filled(o) ==
    [c \in Keys |-> IF c \in Lacking(o) THEN Num(DocumentedDefault(c))
                    ELSE o[c]]

\* C10: a batch record that lacks current_gpa, attendance_rate and/or
\* total_credits is not rejected: with a loaded classifier its slot holds
\* the prediction that the record gets with the documented defaults in
\* place of the absent fields, whereas the single-record endpoint rejects
\* the same record with 400.
C10_BatchDefaultsSingleRejects ==
    \A t \in Threads :
        /\ (Done(t, "batch") /\ response[t].status = 200) =>
              LET a == StudentsData(request[t].body)
              IN  \A i \in 1..Len(a) :
                    (/\ a[i].k = "obj"
                     /\ Lacking(a[i].o) # {}
                     /\ model.loaded
                     /\ predict(model, Object(Filled(a[i].o))).exc = "none")
                    => /\ IsResult(response[t].data[i])
                       /\ response[t].data[i]
                             = ResultEntry(Identifier(a[i], i - 1),
                                   predict(model, Object(Filled(a[i].o))))
                       /\ predict_student(model, ObjectBody(a[i].o))
                             .response.status = 400
        /\ (Done(t, "student") /\ request[t].body.k = "obj"
              /\ Lacking(request[t].body.o) # {})
           => response[t].status = 400

\* C10 witness: a batch answered a record without any required field with
\* a prediction.
C10_Witness ==
    /\ Done(1, "batch")
    /\ response[1].status = 200
    /\ StudentsData(request[1].body)[1] = Object(EmptyObject)
    /\ IsResult(response[1].data[1])
    /\ response[1].data[1].contributing_factors
          = << Factor("Multiple minor risk indicators", 0) >>

\* The identifier the specification answers the record o at 1-based
\* position n with.
DocumentedIdentifier(o, n) ==
    IF o["student_id"].t # "absent" THEN o["student_id"]
    ELSE [t |-> "student_", v |-> n]

\* C11: a record that omits student_id is answered, by the single and by the
\* batch endpoint, with the default identifier student_<n>, n the record's
\* 1-based position in the request, in a result entry and in an error
\* entry; a record that supplies student_id is answered with exactly that
\* identifier.
C11_DefaultIdentifier ==
    \A t \in Threads :
        /\ (Done(t, "student") /\ response[t].status = 200) =>
              response[t].data[1].student_id
                 = DocumentedIdentifier(request[t].body.o, 1)
        /\ (Done(t, "batch") /\ response[t].status = 200) =>
              LET a == StudentsData(request[t].body)
              IN  \A i \in 1..Len(a) :
                     response[t].data[i].student_id
                        = DocumentedIdentifier(a[i].o, i)

\* The part of C11 about the batch endpoint alone.
C11_BatchIdentifier ==
    \A t \in Threads :
        (Done(t, "batch") /\ response[t].status = 200) =>
            LET a == StudentsData(request[t].body)
            IN  \A i \in 1..Len(a) :
                   response[t].data[i].student_id
                      = DocumentedIdentifier(a[i].o, i)

\* A request body that passes the validation of predict_student.
ValidStudent(body) == body.k = "obj" /\ Lacking(body.o) = {}

\* A request body that passes the validation of predict_batch and holds
\* records only.
ValidBatch(body) ==
    /\ BatchValidation(body).code = ""
    /\ \A i \in 1..Len(StudentsData(body)) : StudentsData(body)[i].k = "obj"

\* C12: with no classifier loaded (predictor.model is None) no prediction
\* produces a risk result: predict raises before it engineers features (so
\* a record on which feature engineering would raise fails with the same
\* error, and predict_proba is never called), a valid single request is
\* answered 500 with code PREDICTION_ERROR, every slot of a batch of records
\* is an error entry, and GET /api/health reports model_loaded = false; with
\* a classifier loaded it reports model_loaded = true.
C12_NoClassifierNoPrediction ==
    \A t \in Threads :
        /\ (started /\ ~model.loaded) =>
              /\ proba_calls[t] = 0
              /\ \A i \in 1..Len(predictions[t]) :
                    ~IsResult(predictions[t][i])
              /\ \A i \in 1..Len(response[t].data) :
                    ~IsResult(response[t].data[i])
              /\ \A e \in BatchElements :
                    predict(model, e) = Raised("ValueError", FALSE)
              /\ (Done(t, "student") /\ ValidStudent(request[t].body)) =>
                    /\ response[t].status = 500
                    /\ ~response[t].success
                    /\ response[t].code = "PREDICTION_ERROR"
              /\ (Done(t, "batch") /\ ValidBatch(request[t].body)) =>
                    LET a == StudentsData(request[t].body)
                    IN  /\ response[t].status = 200
                        /\ Len(response[t].data) = Len(a)
                        /\ \A i \in 1..Len(a) :
                              response[t].data[i]
                                 = ErrorEntry(Identifier(a[i], i - 1),
                                              "ValueError")
        /\ Done(t, "health") =>
              /\ response[t].status = 200
              /\ response[t].model_loaded = model.loaded
              /\ response[t].model_loaded = (model # None)

\* C12 witness: with no classifier loaded, a batch of a record that
\* predicts when there is one and a record on which feature engineering
\* raises has been answered with two error entries.
C12_Witness ==
    /\ started /\ ~model.loaded
    /\ Done(1, "batch")
    /\ response[1].status = 200
    /\ StudentsData(request[1].body)
          = << Object(HighRiskRecord),
               Object([HighRiskRecord EXCEPT !["current_gpa"] = Str(0)]) >>
    /\ engineer_features(StudentsData(request[1].body)[2]).exc = "TypeError"
    /\ Len(response[1].data) = 2
    /\ ~IsResult(response[1].data[1])
    /\ response[1].data[2].error = "ValueError"

\* With no classifier loaded, health has answered model_loaded = false.
C12_HealthUnloaded ==
    Done(1, "health") /\ ~model.loaded /\ ~response[1].model_loaded

\* With a classifier loaded, health has answered model_loaded = true.
C12_HealthLoaded ==
    Done(1, "health") /\ model.loaded /\ response[1].model_loaded

\* The loop of predict_batch run without interruption from position i with
\* the list acc, over the elements a.
RECURSIVE BatchAlone(_, _, _, _)
BatchAlone(m, a, i, acc) ==
    IF i = Len(a)
    THEN [NoResponse EXCEPT !.status = 200, !.success = TRUE, !.data = acc,
                            !.total_students = Len(acc)]
    ELSE LET e == BatchEntry(m, a[i + 1], i)
         IN  IF e.exc # "none"
             THEN ErrorResponse(500, "BATCH_ERROR", << >>)
             ELSE BatchAlone(m, a, i + 1, acc \o e.entry)

\* The response to request r when it is the only request the service with
\* the classifier m serves.
ServedAlone(m, r) ==
    CASE r.route = "health" ->
            [NoResponse EXCEPT !.status = 200, !.success = TRUE,
                               !.model_loaded = m.loaded]
      [] r.route = "student" -> predict_student(m, r.body).response
      [] r.route = "batch" ->
            LET v == BatchValidation(r.body)
            IN  IF v.code # ""
                THEN ErrorResponse(v.status, v.code, << >>)
                ELSE BatchAlone(m, StudentsData(r.body), 0, << >>)
      [] OTHER -> ErrorResponse(404, "NOT_FOUND", << >>)

\* What startup leaves in predictor.model: the classifier of the artifact,
\* or None when there is no usable artifact.
LoadedAtStartup == IF artifact.state = "ok" THEN artifact.clf ELSE None

\* Every finished request holds the response it gets when served alone,
\* and a batch in its loop the entries of the elements it has passed.
ResponsesAsAlone ==
    \A t \in Threads :
        /\ pc[t] = "done" => response[t] = ServedAlone(model, request[t])
        /\ pc[t] = "loop" =>
              /\ Len(predictions[t]) = index[t]
              /\ \A i \in 1..index[t] :
                    predictions[t][i]
                       = Outcome(model, StudentsData(request[t].body)[i],
                                 i - 1)

\* C13: after startup, under every interleaving of the steps of
\* concurrently served health, single and batch requests, no handler
\* modifies the shared predictor (its model stays the one startup left, and
\* the artifact it was loaded from stays as it is), and the response to
\* each request is the one the request gets when it is served alone.
C13_ReadOnlyPredictor ==
    /\ [](started => model = LoadedAtStartup)
    /\ [][started => (model' = model /\ artifact' = artifact)]_vars
    /\ []ResponsesAsAlone

\* C13 witness: thread 2 has answered a single request with a prediction
\* while thread 1 stands in the middle of the loop of a batch.
C13_Witness ==
    /\ pc[1] = "loop" /\ index[1] = 1
    /\ Len(StudentsData(request[1].body)) = 2
    /\ Done(2, "student")
    /\ response[2].status = 200
    /\ IsResult(response[2].data[1])

\* A response as the service sends it: one of its statuses, a success
\* response without an error object, a failure response with success false
\* and an error object that has a code and a message.
Structured(r) ==
    /\ r.status \in {200, 400, 404, 500, 503}
    /\ r.status = 200 => (r.success /\ r.code = "")
    /\ r.status \in {400, 404, 500, 503} =>
          /\ ~r.success
          /\ r.code # ""
          /\ r.message # ""
          /\ r.data = << >>

\* What thread t holds of the request it serves.
Serving(t) ==
    << pc[t], request[t], response[t], index[t], predictions[t],
       proba_calls[t] >>

\* The most steps thread t's handler has left before the thread is free
\* again: the response's delivery, the return, and for a batch its
\* validation and one step for each element not yet passed.
Remaining(t) ==
    CASE pc[t] = "idle" -> 0
      [] pc[t] = "done" -> 1
      [] pc[t] \in {"health", "unknown", "student"} -> 2
      [] pc[t] = "loop" ->
            2 + Len(StudentsData(request[t].body)) - index[t]
      [] pc[t] = "batch" -> 3 + Len(StudentsData(request[t].body))
      [] OTHER -> -1

\* The steps of the handler that serves thread t's request, up to the
\* response's delivery.
Serve(t) ==
    \/ HealthCheck(t)
    \/ NotFound(t)
    \/ PredictStudent(t)
    \/ BatchValidate(t)
    \/ BatchPredictOne(t)
    \/ BatchRespond(t)
    \/ Deliver(t)

Busy(t) == pc[t] \notin {"idle", "done"}

\* A thread that serves a request keeps running: it is free again and
\* again, or takes step after step of its handler.
Scheduled ==
    \A t \in Threads : []<>(pc[t] = "idle") \/ []<><< Serve(t) >>_vars

\* C14: every request to any route, whatever its body and whether or not
\* the classifier is loaded, ends with exactly one response: every step of
\* its handler brings the end nearer (the handler stands at a position of
\* the code from which the next step is defined, waits for nothing, and
\* the loop of a batch passes one element per step), the response once
\* returned is not replaced before it is delivered, and the thread is then
\* free for the next request.  Every response is structured JSON, and every
\* failure response (400, 404, 500, 503) has success false and an error
\* object with a code and a message.
C14_EveryRequestAnswered ==
    /\ [](\A t \in Threads :
            /\ Remaining(t) >= 0
            /\ pc[t] = "done" => Structured(response[t])
            /\ pc[t] \notin {"idle", "done"} => response[t] = NoResponse)
    /\ [][\A t \in Threads :
            /\ (pc[t] # "idle" /\ Serving(t)' # Serving(t)) =>
                  Remaining(t)' < Remaining(t)
            /\ pc[t] = "done" =>
                  (response'[t] = response[t] \/ pc'[t] = "idle")
            /\ (pc[t] # "done" /\ pc'[t] = "done") =>
                  response'[t] # NoResponse]_vars
    /\ [](\A t \in Threads :
            /\ (started /\ pc[t] = "idle") => ENABLED Receive(t)
            /\ pc[t] = "health" => ENABLED HealthCheck(t)
            /\ pc[t] = "unknown" => ENABLED NotFound(t)
            /\ pc[t] = "batch" => ENABLED BatchValidate(t)
            /\ (pc[t] = "loop"
                  /\ index[t] = Len(StudentsData(request[t].body)))
               => ENABLED BatchRespond(t)
            /\ pc[t] = "done" => ENABLED Deliver(t))
    /\ Scheduled => \A t \in Threads : Busy(t) ~> (pc[t] = "done")

\* C14 witness: with no classifier loaded, a batch request has been
\* answered with a failure response after the loop had begun.
C14_Witness ==
    /\ ~model.loaded
    /\ Done(1, "batch")
    /\ response[1].status = 500
    /\ response[1].code = "BATCH_ERROR"
    /\ response[1].message = "Batch prediction failed"
    /\ index[1] = 1

\* C15: a POST /api/predict/student whose body is not a JSON object (a body
\* that is not JSON, an empty body, a number, an array) is answered 400
\* with success false and code INVALID_REQUEST, never 500 and never with a
\* prediction.
C15_NonObjectRejected ==
    \A t \in Threads :
        (Done(t, "student") /\ request[t].body.k # "obj") =>
            /\ response[t].status = 400
            /\ ~response[t].success
            /\ response[t].code = "INVALID_REQUEST"
            /\ response[t].data = << >>
            /\ proba_calls[t] = 0

\* The part of C15 that holds: a body that is not a JSON object is
\* answered with a failure response and never with a prediction.
C15_NonObjectNoPrediction ==
    \A t \in Threads :
        (Done(t, "student") /\ request[t].body.k # "obj") =>
            /\ response[t].status \in {400, 500}
            /\ ~response[t].success
            /\ response[t].data = << >>
            /\ proba_calls[t] = 0
            /\ (request[t].body.k = "null"
                  \/ request[t].body = ArrayBody(<< >>))
               => (response[t].status = 400
                     /\ response[t].code = "INVALID_REQUEST")

\* The bodies the specification has POST /api/predict/batch accept: a
\* non-empty array of records, or an object whose students member is a
\* non-empty array.
Accepted(body) ==
    \/ /\ body.k = "arr"
       /\ body.a # << >>
       /\ \A i \in 1..Len(body.a) : body.a[i].k = "obj"
    \/ /\ body.k = "obj"
       /\ body.sk = "list"
       /\ body.a # << >>

\* C16: POST /api/predict/batch answers 200 exactly when the body is a
\* non-empty JSON array of records or an object whose students member is a
\* non-empty array; every other JSON body is answered 400 with success
\* false, and no record of it is predicted.
C16_BatchAcceptedExactly ==
    \A t \in Threads :
        (Done(t, "batch") /\ request[t].body.k # "malformed") =>
            /\ (response[t].status = 200) <=> Accepted(request[t].body)
            /\ ~Accepted(request[t].body) =>
                  /\ response[t].status = 400
                  /\ ~response[t].success
                  /\ proba_calls[t] = 0

\* The part of C16 that holds: it holds of every body that is null, an
\* object or an array and whose elements are all records.
C16_RecordsOnly ==
    \A t \in Threads :
        (/\ Done(t, "batch")
         /\ request[t].body.k \in {"null", "obj", "arr"}
         /\ \A i \in 1..Len(request[t].body.a) :
               request[t].body.a[i].k = "obj") =>
            /\ (response[t].status = 200) <=> Accepted(request[t].body)
            /\ ~Accepted(request[t].body) =>
                  /\ response[t].status = 400
                  /\ ~response[t].success
                  /\ proba_calls[t] = 0

\* The numeric fields of a record.
NumericFields == Fields \ {"is_first_generation"}

\* The numeric fields of record o that hold a string.
Malformed(o) == { c \in NumericFields : o[c].t = "str" }

\* C17: when a numeric field of a record holds a value that is not a number
\* (a string), engineer_features treats it as missing: it does not raise,
\* the field holds its documented default in the feature vector, and no
\* cell of the vector is NaN or a string.
C17_MalformedValuesDefaulted ==
    (stage \in {"engineered", "predicted"} /\ Malformed(data.o) # {}) =>
        /\ features.exc = "none"
        /\ \A i \in 1..Len(features.f) : Numeric(features.f[i].val)
        /\ \A c \in Malformed(data.o) :
              \E i \in 1..Len(features.f) :
                  /\ features.f[i].name = c
                  /\ features.f[i].val = Cell(DocumentedDefault(c))

\* What engineer_features does with a string in a numeric field: it raises
\* TypeError when the field enters its arithmetic, and hands the string on
\* to the classifier, which raises, when it does not; predict raises in
\* both cases.
C17_StringsRaise ==
    LET computed == {"current_gpa", "attendance_rate", "total_credits",
                     "course_difficulty_avg"}
    IN  /\ (stage \in {"engineered", "predicted"}
              /\ Malformed(data.o) \cap computed # {})
           => features.exc = "TypeError"
        /\ (stage \in {"engineered", "predicted"}
              /\ Malformed(data.o) # {}
              /\ Malformed(data.o) \cap computed = {})
           => /\ features.exc = "none"
              /\ \A c \in Malformed(data.o) :
                    Feature(features.f, c) = StrCell
        /\ (stage = "predicted" /\ Malformed(data.o) # {})
           => result.exc \in {"TypeError", "ValueError"}
        /\ (stage = "predicted" /\ Malformed(data.o) = {})
           => result.exc = "none"

\* C18: every successful prediction has risk_score in [0, 1]: predict
\* clamps the classifier's positive-class probability p to [0, 1], so that
\* a classifier that answers p < 0 or p > 1 still yields a risk_score
\* inside the range.
C18_RiskScoreClamped ==
    Returned => (0 <= result.risk_score /\ result.risk_score <= 100000)

\* What predict does with p: risk_score is p itself, so it lies in [0, 1]
\* exactly when the classifier keeps the probability contract.
C18_RiskScoreIsProbability ==
    Returned =>
        LET p == predict_proba(clf, features).p
        IN  /\ result.risk_score = p
            /\ (\A i \in 1..Len(clf.table) :
                   0 <= clf.table[i] /\ clf.table[i] <= 100000)
               => (0 <= result.risk_score /\ result.risk_score <= 100000)

\* 1 for TRUE and 0 for FALSE.
Flag(b) == IF b THEN 1 ELSE 0

\* C19: for every record each derived feature equals its documented
\* formula applied to the defaulted direct values:
\* attendance_gpa_interaction = academic_progress_rate
\*   = current_gpa * attendance_rate; credit_load_status = 1 iff
\* total_credits >= 15; gpa_status = 1 iff current_gpa >= 3.0;
\* attendance_status = 1 iff attendance_rate >= 0.8; risk_factor_count is
\* the number of true among current_gpa < 2.5, attendance_rate < 0.7 and
\* total_credits > 18, an integer in [0, 3]; is_first_generation is 0 or 1
\* (1 for true, 0 for false and by default).
C19_DerivedFeatures ==
    stage \in {"engineered", "predicted"} =>
        LET g == Defaulted(data.o, "current_gpa")
            a == Defaulted(data.o, "attendance_rate")
            c == Defaulted(data.o, "total_credits")
            fg == Defaulted(data.o, "is_first_generation")
            count == Flag(g < 2500) + Flag(a < 7000) + Flag(c > 18)
            F(name) == Feature(features.f, name)
        IN  /\ features.exc = "none"
            /\ F("attendance_gpa_interaction") = Cell(g * a)
            /\ F("academic_progress_rate") = Cell(g * a)
            /\ F("attendance_gpa_interaction") = F("academic_progress_rate")
            /\ F("credit_load_status") = Cell(Flag(c >= 15))
            /\ F("gpa_status") = Cell(Flag(g >= 3000))
            /\ F("attendance_status") = Cell(Flag(a >= 8000))
            /\ F("risk_factor_count") = Cell(count)
            /\ F("risk_factor_count").n \in 0..3
            /\ F("is_first_generation") = Cell(fg)
            /\ F("is_first_generation") \in {Cell(0), Cell(1)}

\* C19 witness: a record on the thresholds has been engineered: GPA 3.0
\* (gpa_status 1, no risk), attendance 0.6999 (one risk), total_credits by
\* default 15 (credit_load_status 1, no risk), first generation.
C19_Witness ==
    /\ stage = "engineered"
    /\ data.o["current_gpa"] = Num(3000)
    /\ data.o["attendance_rate"] = Num(6999)
    /\ data.o["total_credits"].t = "absent"
    /\ data.o["is_first_generation"] = Bool(TRUE)
    /\ Feature(features.f, "gpa_status") = Cell(1)
    /\ Feature(features.f, "attendance_status") = Cell(0)
    /\ Feature(features.f, "credit_load_status") = Cell(1)
    /\ Feature(features.f, "risk_factor_count") = Cell(1)
    /\ Feature(features.f, "academic_progress_rate") = Cell(3000 * 6999)
    /\ Feature(features.f, "is_first_generation") = Cell(1)

\* C20: engineer_features is total on well-typed records: for every numeric
\* value of course_difficulty_avg the denominator course_difficulty_avg +
\* 0.1 of gpa_difficulty_interaction is not zero, so the feature is a
\* finite number and feature engineering never fails.
C20_QuotientFinite ==
    stage \in {"engineered", "predicted"} =>
        /\ features.exc = "none"
        /\ Defaulted(data.o, "course_difficulty_avg") + 1 # 0
        /\ Feature(features.f, "gpa_difficulty_interaction").k = "num"

\* What holds of the quotient: it is finite exactly when
\* course_difficulty_avg is not -0.1; at -0.1 the denominator is zero, the
\* feature is infinite, and predict raises the classifier's ValueError.
C20_QuotientFiniteUnlessZero ==
    stage \in {"engineered", "predicted"} =>
        LET d == Defaulted(data.o, "course_difficulty_avg") + 1
            q == Feature(features.f, "gpa_difficulty_interaction")
        IN  /\ features.exc = "none"
            /\ d # 0 => q = [k |-> "num",
                             n |-> Defaulted(data.o, "current_gpa"), d |-> d]
            /\ d = 0 => q.k = "inf"
            /\ (stage = "predicted" /\ d = 0) => result.exc = "ValueError"
            /\ (stage = "predicted" /\ d # 0) => result.exc = "none"

\* The records of MixedRecords that agree with o on the four factor fields:
\* o with its other fields replaced.
Variants(o) ==
    { [o EXCEPT !["course_difficulty_avg"] = d, !["credits_attempted"] = ca,
                !["age"] = ag, !["is_first_generation"] = fg] :
        d \in {Absent, Num(45), Num(-1)},
        ca \in {Absent, Num(60)},
        ag \in {Absent, Num(19), Bool(TRUE)},
        fg \in {Absent, Bool(TRUE)} }

\* A record none of whose numeric fields holds a boolean or a string.
WellTyped(o) == \A c \in Fields \ {"is_first_generation"} :
                    o[c].t \in {"absent", "null", "num"}

\* C21: contributing_factors depends only on the record's current_gpa,
\* attendance_rate, total_credits and gpa_trend: a prediction and every
\* other prediction, by any classifier, of a record that agrees with it on
\* these four values have identical contributing_factors, whatever the
\* other input fields, the derived features and the probability are.
C21_FactorsFromFourValues ==
    Returned =>
        \A o2 \in Variants(data.o), p \in MixedScores :
            LET other == predict(Constant(p), Object(o2))
            IN  other.exc = "none" =>
                   other.contributing_factors = result.contributing_factors

\* The same for records without an ill-typed value, and up to the way the
\* number of credits is written for all records.
C21_WellTypedFactors ==
    Returned =>
        \A o2 \in Variants(data.o), p \in MixedScores :
            LET other == predict(Constant(p), Object(o2))
                shown(fs) == [i \in 1..Len(fs) |-> << fs[i].text, fs[i].arg >>]
            IN  other.exc = "none" =>
                   /\ shown(other.contributing_factors)
                         = shown(result.contributing_factors)
                   /\ (WellTyped(o2) /\ WellTyped(data.o)) =>
                         other.contributing_factors
                            = result.contributing_factors

\* A heavy course load has been reported for a record whose age is a JSON
\* boolean: the number of credits is written as an integer.
C21_IntegerCredits ==
    /\ Returned
    /\ data.o["age"] = Bool(TRUE)
    /\ \E i \in 1..Len(result.contributing_factors) :
          /\ result.contributing_factors[i].text = "Heavy course load"
          /\ result.contributing_factors[i].repr = "int"

\* The three ways _create_model ends, as relations between the state
\* before and after it.
LoadedExisting ==
    /\ artifact.state = "ok"
    /\ model' = artifact.clf /\ model'.loaded
    /\ artifact' = artifact

TrainedAndSaved ==
    /\ artifact.state = "absent"
    /\ model'.loaded
    /\ artifact' = [state |-> "ok", clf |-> model']

Degraded ==
    /\ model' = None
    /\ artifact'.state # "ok"

\* C22: startup never raises (it can always be taken and always leaves the
\* service started) and ends in exactly one of three states: the artifact
\* existed and loaded, its classifier is used and the artifact is as it
\* was; no artifact existed, a classifier was trained and the artifact
\* holds it; or loading, training or saving failed and the model is None.
\* No request is received before startup has ended, the model and the
\* artifact then stay so, and in the degraded state health answers 200 with
\* model_loaded = false.
C22_StartupOutcomes ==
    /\ [][(~started) =>
            /\ started'
            /\ (IF LoadedExisting THEN 1 ELSE 0)
               + (IF TrainedAndSaved THEN 1 ELSE 0)
               + (IF Degraded THEN 1 ELSE 0) = 1
            /\ artifact.state = "ok" => LoadedExisting
            /\ artifact.state = "corrupt" => (Degraded /\ artifact' = artifact)
            /\ artifact.state = "absent" => (TrainedAndSaved \/ Degraded)
            /\ \A t \in Threads : pc'[t] = "idle"]_vars
    /\ [][started =>
            (started' /\ model' = model /\ artifact' = artifact)]_vars
    /\ [](~started => (ENABLED Startup /\ model = None))
    /\ [](started =>
            /\ model.loaded <=> artifact.state = "ok"
            /\ model.loaded => artifact.clf = model
            /\ \A t \in Threads :
                  (Done(t, "health") /\ model = None) =>
                     /\ response[t].status = 200
                     /\ ~response[t].model_loaded)

\* C22 witness: no artifact could be written, the service has started
\* without a model and health has answered model_loaded = false.
C22_Witness ==
    /\ started
    /\ artifact.state = "absent"
    /\ model = None
    /\ Done(1, "health")
    /\ response[1].status = 200
    /\ ~response[1].model_loaded

\* A record the single endpoint predicts with the classifier startup
\* trains.
HeavyLoadRecord == [HighRiskRecord EXCEPT !["total_credits"] = Num(19)]

\* C23: the 15 feature names, in order, that engineer_features hands to
\* the classifier are the feature columns, in order, the classifier of the
\* artifact was fitted with, for the classifier startup trains and for the
\* artifact train_and_save writes (a forest fitted on an array has no names
\* and takes the 15 columns by position, which startup fits in the order of
\* feature_names); so a valid single request to a service with such an
\* artifact is answered with a prediction.
C23_TrainedOnServedFeatures ==
    /\ artifact.state = "ok" =>
          artifact.clf.names \in {<< >>, feature_names}
    /\ Names(engineer_features(Object(HeavyLoadRecord)).f) = feature_names
    /\ \A t \in Threads :
          (Done(t, "student") /\ model.loaded
              /\ request[t].body = ObjectBody(HeavyLoadRecord)) =>
             response[t].status = 200

\* The part of C23 about the classifier startup trains and loads again.
C23_BootstrappedOnServedFeatures ==
    (artifact.state = "ok" /\ artifact.clf.names = << >>) =>
        /\ Len(ProbTable) > 0
        /\ \A t \in Threads :
              (Done(t, "student") /\ model = artifact.clf
                  /\ request[t].body = ObjectBody(HeavyLoadRecord)) =>
                 response[t].status = 200

\* With the artifact of train_and_save and a build that checks the names,
\* no prediction is returned.
C23_TrainedArtifactRejects ==
    \A t \in Threads :
        (model.loaded /\ model.strict /\ model.names # << >>) =>
            /\ model.names # feature_names
            /\ Len(model.names) = Len(feature_names)
            /\ \A i \in 1..Len(response[t].data) :
                  ~IsResult(response[t].data[i])
            /\ Done(t, "student") => response[t].status # 200

\* The service has loaded the artifact of train_and_save and answered a
\* valid single request with 500.
C23_Rejected ==
    /\ model.loaded /\ model.strict /\ model.names # << >>
    /\ Done(1, "student")
    /\ request[1].body = ObjectBody(HeavyLoadRecord)
    /\ response[1].status = 500
    /\ response[1].code = "PREDICTION_ERROR"

\* What an entry of a batch response tells about its record apart from the
\* identifier: the five fields of a result, or the error.
RiskFields(e) ==
    IF IsResult(e)
    THEN << e.risk_score, e.risk_level, e.confidence, e.contributing_factors,
            e.recommendations >>
    ELSE << e.error >>

\* The batch a with its records rearranged by the permutation f.
Rearranged(a, f) == [j \in 1..Len(a) |-> a[f[j]]]

\* C24: batch processing is stateless across records.  For every answered
\* batch of records, each record's entry has the risk_score, risk_level,
\* confidence, contributing_factors and recommendations (or the error) that
\* the record obtains in a batch containing it alone, and in the batch
\* rearranged by any permutation the record that moved from position f[j]
\* to position j obtains the same; while the loop runs, the entries built so
\* far are those of the records alone.
C24_BatchStateless ==
    \A t \in Threads :
        LET a == StudentsData(request[t].body)
            alone(e) == BatchAlone(model, << e >>, 0, << >>)
        IN  /\ (pc[t] = "loop" /\ ValidBatch(request[t].body)) =>
                  \A i \in 1..Len(predictions[t]) :
                     RiskFields(predictions[t][i])
                        = RiskFields(alone(a[i]).data[1])
            /\ (Done(t, "batch") /\ ValidBatch(request[t].body)) =>
                  /\ response[t].status = 200
                  /\ Len(response[t].data) = Len(a)
                  /\ \A i \in 1..Len(a) :
                        /\ alone(a[i]).status = 200
                        /\ RiskFields(response[t].data[i])
                              = RiskFields(alone(a[i]).data[1])
                  /\ \A f \in Permutations(1..Len(a)) :
                        LET other == BatchAlone(model, Rearranged(a, f), 0,
                                                << >>)
                        IN  /\ other.status = 200
                            /\ Len(other.data) = Len(a)
                            /\ \A j \in 1..Len(a) :
                                  RiskFields(other.data[j])
                                     = RiskFields(response[t].data[f[j]])

\* C24 witness: a batch of a high-risk and a low-risk record has been
\* answered with two different results, the first at HIGH or MEDIUM risk
\* with three factors, the second with the fallback factor alone.
C24_Witness ==
    /\ Done(1, "batch")
    /\ StudentsData(request[1].body)
          = << Object(HighRiskRecord), Object(LowRiskRecord) >>
    /\ response[1].status = 200
    /\ IsResult(response[1].data[1]) /\ IsResult(response[1].data[2])
    /\ Len(response[1].data[1].contributing_factors) = 3
    /\ response[1].data[2].contributing_factors = << Fallback >>
    /\ response[1].data[1].risk_score # response[1].data[2].risk_score

\* The result entries of the response of thread t.
Results(t) ==
    { response[t].data[i] : i \in { j \in 1..Len(response[t].data) :
                                       IsResult(response[t].data[j]) } }

\* C25: in every single and batch response the reported risk_level agrees
\* with the risk_score reported in the same entry (rounded to 4 decimals):
\* HIGH exactly when the reported score is >= 0.7, LOW exactly when it is
\* < 0.4, MEDIUM otherwise, also for scores just below a threshold.
C25_ReportedLevelAgrees ==
    \A t \in Threads :
        pc[t] = "done" =>
            \A e \in Results(t) :
                /\ (e.risk_level = "HIGH") <=> (e.risk_score >= 70000)
                /\ (e.risk_level = "LOW") <=> (e.risk_score < 40000)
                /\ e.risk_level = RiskLevel(e.risk_score)

\* The reported level is never further from the reported score than the
\* threshold itself: a HIGH score is reported >= 0.7, a LOW score <= 0.4,
\* a MEDIUM score within [0.4, 0.7].
C25_AgreesUpToRounding ==
    \A t \in Threads :
        pc[t] = "done" =>
            \A e \in Results(t) :
                /\ e.risk_level = "HIGH" => e.risk_score >= 70000
                /\ e.risk_level = "MEDIUM" =>
                      (40000 <= e.risk_score /\ e.risk_score <= 70000)
                /\ e.risk_level = "LOW" => e.risk_score <= 40000
                /\ e.risk_score % 10 = 0

\* A single response reports risk_score 0.7 with risk_level MEDIUM.
C25_MediumAtThreshold ==
    /\ Done(1, "student")
    /\ response[1].status = 200
    /\ response[1].data[1].risk_score = 70000
    /\ response[1].data[1].risk_level = "MEDIUM"

\* A batch response reports risk_score 0.4 with risk_level LOW.
C25_LowAtThreshold ==
    /\ Done(1, "batch")
    /\ response[1].status = 200
    /\ \E e \in Results(1) : e.risk_score = 40000 /\ e.risk_level = "LOW"

\* The required fields that record o carries with a null value.
NullRequired(o) == { f \in RequiredFields : o[f].t = "null" }

\* Record o with the documented defaults written in place of the nulls of
\* its required fields.
WithDefaults(o) ==
    [c \in Keys |-> IF c \in NullRequired(o) THEN Num(DocumentedDefault(c))
                    ELSE o[c]]

\* C26: the required-field check of the single endpoint tests key presence
\* only.  A request that carries all three required fields, one or more of
\* them null, is not answered MISSING_FIELDS (nor any other 400); with a
\* classifier loaded it is answered as the record with the documented
\* default in place of each null is predicted (200 with that prediction, or
\* 500 when that prediction raises), and without a classifier 500.
C26_NullPassesValidation ==
    \A t \in Threads :
        LET o == request[t].body.o
            r == predict(model, Object(WithDefaults(o)))
        IN  (Done(t, "student") /\ request[t].body.k = "obj"
                /\ Lacking(o) = {} /\ NullRequired(o) # {})
            => /\ Missing(request[t].body) = << >>
               /\ response[t].code # "MISSING_FIELDS"
               /\ response[t].status \in {200, 500}
               /\ (model.loaded /\ r.exc = "none") =>
                     /\ response[t].status = 200
                     /\ response[t].success
                     /\ response[t].data
                           = << ResultEntry(
                                  GetStudentId(o, [t |-> "unknown", v |-> 0]),
                                  r) >>
               /\ (~model.loaded \/ r.exc # "none") =>
                     /\ response[t].status = 500
                     /\ response[t].code = "PREDICTION_ERROR"

\* C26 witness: a request with all three required fields null and a falling
\* GPA has been predicted with 2.5, 0.8 and 15 in their place: the only
\* factor is the declining performance.
C26_Witness ==
    /\ Done(1, "student")
    /\ model.loaded
    /\ NullRequired(request[1].body.o) = RequiredFields
    /\ request[1].body.o["gpa_trend"] = Num(-40)
    /\ response[1].status = 200
    /\ Texts(response[1].data[1].contributing_factors)
          = << "Declining academic performance" >>
    /\ predict(model, Object(request[1].body.o)).exc = "none"
    /\ Feature(engineer_features(Object(request[1].body.o)).f,
               "current_gpa") = Cell(2500)
    /\ Feature(engineer_features(Object(request[1].body.o)).f,
               "attendance_rate") = Cell(8000)
    /\ Feature(engineer_features(Object(request[1].body.o)).f,
               "total_credits") = Cell(15)
=============================================================================
